---------------------------- MODULE Spec2Model ----------------------------
(***************************************************************************)
(* A model of the notification engine of web-push-testing: the class       *)
(* PushApiModel of src/src/pushApiModel.js (lines 249-575).                *)
(*                                                                         *)
(* State: the engine's fields (subscriptions, messages, notifyUrl), the    *)
(* properties the engine has set on Object.prototype, the calls that are   *)
(* suspended at an await, the number of random draws made, and the outcome *)
(* handed to the caller by the call that settled last.                     *)
(* JavaScript runs a function without interruption from one await (or      *)
(* .then callback) to the next, so the code between two suspension points  *)
(* is one atomic step.  Runs that neither read nor write a field of the    *)
(* engine (the validation of subscribe options) are part of the step of    *)
(* the call they belong to.                                                *)
(*                                                                         *)
(* Values of the crypto collaborators are symbolic.  A base64 string is    *)
(* the bytes it decodes to plus its spelling; a buffer is its length, its  *)
(* first byte and an identity for the rest; a token is its signer and      *)
(* whether it is well formed; a ciphertext is its recipient, its encoding  *)
(* and its plaintext.  The n-th value drawn from the random source is a    *)
(* fresh value named n: a repeated 256-bit draw is outside the model.      *)
(*                                                                         *)
(* Around the engine: the command line of src/unnamed/part_006 with the    *)
(* servers it spawns (SpecCli), the header validators fed with the header  *)
(* objects of their tests (SpecHeaders), a caller that keeps the list      *)
(* getNotifications returned (SpecReader), and several servers of          *)
(* src/src/server.js constructed in one process (SpecServers).             *)
(***************************************************************************)
EXTENDS Integers, Sequences, FiniteSets, Bags, TLC

\* Bounds of the model (not constants of the program).
MaxSubscriptions == 2
MaxMessages == 2
MaxInFlight == 2
MaxCli == 2
MaxServers == 2

VARIABLES subscriptions, messages, notifyUrl, objectPrototype, calls, nDrawn, ret,
          storage, servers, clis, listening,
          held, apiModel, instances, others

\* What the command line works on: the persisted store, the server processes
\* it has spawned, the command-line processes that wait for an event, and the
\* ports another program listens on.
cliVars == <<storage, servers, clis, listening>>

\* What the process that runs the engine has besides it: the list a caller of
\* getNotifications keeps, the module variable apiModel of src/src/server.js,
\* the servers constructed, and the engines apiModel does not refer to.
processVars == <<held, apiModel, instances, others>>

vars == <<subscriptions, messages, notifyUrl, objectPrototype, calls, nDrawn, ret, cliVars,
          processVars>>

---------------------------------------------------------------------------
\* JavaScript values

\* The value undefined: of a property that is missing, or set to undefined.
Undefined == [type |-> "undefined"]

hasOwnProperty(object, key) == key \in DOMAIN object

\* object[key] for a key that is no name of Object.prototype: undefined when
\* the object has no such property.
Get(object, key) == IF key \in DOMAIN object THEN object[key] ELSE Undefined

\* The name __proto__.  A clientHash is a number in the model, so the name
\* has a number of its own, which no draw gives.
ProtoKey == -1

\* The value of object['__proto__'] for an object written as {}.
ObjectPrototype == [type |-> "Object.prototype"]

\* The properties of a prototype after prototype[name] = value: the properties
\* a for..in loop over an object finds after the object's own, in the order
\* they were set.
setProperty(properties, name, value) ==
    IF \E i \in 1..Len(properties) : properties[i][1] = name
    THEN [i \in 1..Len(properties) |->
             IF properties[i][1] = name THEN <<name, value>> ELSE properties[i]]
    ELSE Append(properties, <<name, value>>)

\* An error object: its class and its message; detail is the value the code
\* appends to the message text.
ErrWith(name, message, detail) == [name |-> name, message |-> message, detail |-> detail]

Err(name, message) == ErrWith(name, message, "")

NoError == Err("", "")

\* A TypeError of the runtime: a method called on undefined.
TypeErrorOf(what) == Err("TypeError", what)

---------------------------------------------------------------------------
\* Buffers and base64 strings

Buffer(len, first, id) == [length |-> len, first |-> first, id |-> id]

\* A base64 or base64url string: the bytes it encodes and how it is spelled.
B64(bytes, spelling) == [type |-> "string", bytes |-> bytes, spelling |-> spelling]

base64UrlDecode(input) == input.bytes

base64UrlEncode(input) == B64(input, "url")

\* Buffer.toString('base64')
toBase64(bytes) == B64(bytes, "std")

decodeBase64UrlString(string) == toBase64(base64UrlDecode(string))

\* encodeBase64UrlString that encodes the characters of the text it is given:
\* four characters for every three bytes, each of them a byte of the result.
encodeBase64UrlStringOfText(string) ==
    B64(Buffer(((string.bytes.length + 2) \div 3) * 4, 0, <<"text", 0>>), "url")

\* urlsafe-base64's encode of a string: String.toString ignores its argument, so
\* the base64 text is kept and only respelled url-safe.
encodeBase64UrlString(string) == B64(string.bytes, "url")

\* The points importKey accepts as raw P-256 public keys.
IsP256Point(bytes) == bytes.length = 65 /\ bytes.first = 4 /\ bytes.id[1] \in {"A", "B", "D", "E", "ecdh"}

\* importVapidKey: the imported key (its bytes), or undefined when importKey throws.
importVapidKey(keyString) ==
    LET bytes == base64UrlDecode(keyString)
    IN  IF IsP256Point(bytes) THEN [type |-> "public", bytes |-> bytes] ELSE Undefined

isValidVapidKey(key) ==
    LET cryptoKey == importVapidKey(decodeBase64UrlString(key))
    IN  cryptoKey # Undefined /\ cryptoKey.type = "public"

\* Application server keys a caller may send.
KeyA == B64(Buffer(65, 4, <<"A", 0>>), "url")
KeyAPadded == B64(Buffer(65, 4, <<"A", 0>>), "padded")
KeyB == B64(Buffer(65, 4, <<"B", 0>>), "url")
KeyNope == B64(Buffer(3, 158, <<"nope", 0>>), "url")

\* The n-th draws of the random source: randomBytes(32) as hex, randomBytes(16),
\* and the ECDH key pair of generateKeys().
randomHex32(n) == n
randomBytes16(n) == Buffer(16, 0, <<"rnd", n>>)
generateKeys(n) == [privateKey |-> n, publicKey |-> Buffer(65, 4, <<"ecdh", n>>)]

---------------------------------------------------------------------------
\* subscribe

\* Subscribe options as the for..in loop sees them: the own properties in
\* insertion order, each a <<name, value>> pair.  The values are strings, as
\* the fields of a form are.
OptionEntries ==
    { <<"userVisibleOnly", v>> : v \in {"true", "false", "maybe"} }
    \cup { <<"applicationServerKey", k>> : k \in {KeyA, KeyNope} }
    \cup { <<"random", "x">> }

\* The options objects of the subscribe calls: empty, every single option, and
\* pairs in which a valid option precedes or follows an invalid one.
OptionsInputs ==
    { <<>> } \cup { <<e>> : e \in OptionEntries }
    \cup { <<<<"userVisibleOnly", "true">>, <<"applicationServerKey", KeyA>>>>,
           <<<<"applicationServerKey", KeyA>>, <<"random", "x">>>>,
           <<<<"userVisibleOnly", "maybe">>, <<"applicationServerKey", KeyA>>>>,
           <<<<"random", "x">>, <<"userVisibleOnly", "maybe">>>>,
           <<<<"applicationServerKey", KeyNope>>, <<"userVisibleOnly", "maybe">>>> }

OptionValue(options, name) ==
    IF \E i \in 1..Len(options) : options[i][1] = name
    THEN options[CHOOSE i \in 1..Len(options) : options[i][1] = name][2]
    ELSE Undefined

\* The check of one option of the loop body: the error thrown, or NoError.
validateOption(parameter, value) ==
    IF parameter # "userVisibleOnly" /\ parameter # "applicationServerKey"
    THEN ErrWith("RangeError", "Invalid property ... sent.", parameter)
    ELSE IF parameter = "userVisibleOnly" /\ value # "true" /\ value # "false"
    THEN Err("RangeError", "Parameter userVisibleOnly is not of type boolean: ...")
    ELSE IF parameter = "applicationServerKey" /\ ~isValidVapidKey(value)
    THEN Err("Error", "Parameter applicationServerKey does not seem to be a valid VAPID key.")
    ELSE NoError

\* The properties for (const parameter in object) goes through: the object's
\* own, then the enumerable ones it inherits from Object.prototype.
forIn(object) == object \o objectPrototype

\* validateSubscribeOptions that returns after the first option it has checked.
validateSubscribeOptionsFirstOnly(options) ==
    LET entries == forIn(options)
    IN  IF entries = <<>> THEN NoError
        ELSE validateOption(entries[1][1], entries[1][2])

\* validateSubscribeOptions: the error of the first option that fails, or NoError.
validateSubscribeOptions(options) ==
    LET entries == forIn(options)
        bad == { i \in 1..Len(entries) : validateOption(entries[i][1], entries[i][2]) # NoError }
    IN  IF bad = {} THEN NoError
        ELSE LET i == CHOOSE j \in bad : \A k \in bad : j <= k
             IN  validateOption(entries[i][1], entries[i][2])


---------------------------------------------------------------------------
\* Calls and outcomes

\* The calls suspended at an await: a bag, as two calls with the same
\* arguments may be suspended together.
Suspended == BagToSet(calls)

Suspend(call) == calls (+) SetToBag({call})

Resume(call) == calls (-) SetToBag({call})

\* The model suspends a call while fewer than MaxInFlight calls are suspended.
Room == BagCardinality(calls) < MaxInFlight

\* What the caller gets: the promise rejected (or the function throwing) with an
\* error, or resolved (returning) with a value.  awaited tells whether the call
\* had been suspended; input is what the outcome keeps of the call's arguments.
Rejected(op, awaited, input, error) ==
    [op |-> op, settled |-> "rejected", awaited |-> awaited, input |-> input, error |-> error]

Resolved(op, awaited, input, value) ==
    [op |-> op, settled |-> "resolved", awaited |-> awaited, input |-> input, value |-> value]

\* No outcome is waiting for its caller.
NoOutcome == [op |-> "none"]

\* A piece of engine code runs when no outcome is waiting.
Ready == ret = NoOutcome

\* object[key] = value
Put(object, key, value) ==
    [k \in DOMAIN object \cup {key} |-> IF k = key THEN value ELSE object[k]]

\* The clientHashes callers of Spec name: those issued so far, and 0, which is
\* never issued.
NamedHashes == {0} \cup DOMAIN subscriptions

\* The keys callers look up: a clientHash, or the name __proto__.
NamedKeys == NamedHashes \cup {ProtoKey}

\* notifyUrl as the WebPushTestingServer constructor sets it on the engine it is
\* given (src/src/server.js line 21), for the default port.
ServerNotifyUrl == "http://localhost:8090/notify/"

\* The port of the constructor, and the port the tests give with -p.
DefaultPort == 8090
TestPort == 8999

\* The ports servers are constructed for.
ConstructorPorts == {DefaultPort, TestPort}

\* 'http://' + this._host + ':' + this._port + '/notify/'
notifyUrlOf(port) ==
    IF port = DefaultPort THEN ServerNotifyUrl ELSE "http://localhost:8999/notify/"

\* The engines of the process: 1 is the engine the first server is constructed
\* with.
Engines == {1, 2}

\* The fields of an engine after new PushApiModel().
NewEngine == [notifyUrl |-> "", subscriptions |-> <<>>, messages |-> <<>>]

Init ==
    /\ subscriptions = <<>>
    /\ messages = <<>>
    /\ notifyUrl = ServerNotifyUrl
    /\ objectPrototype = <<>>
    /\ calls = EmptyBag
    /\ nDrawn = 0
    /\ ret = NoOutcome
    /\ storage = <<>>
    /\ servers = <<>>
    /\ clis = EmptyBag
    /\ listening = {}
    /\ held = Undefined
    /\ apiModel = 1
    /\ instances = DefaultPort :> 1
    /\ others = [e \in Engines \ {1} |-> NewEngine]

---------------------------------------------------------------------------
\* subscribe, createSubscription

\* subscribe(options) up to the .then of generateSubscriptionEcdh: a rejected
\* validation rejects the call; after an accepted one createSubscription draws
\* the random clientHash and auth key, generates the key pair and suspends.
\* The awaits of the validation are inside this step: no code before
\* generateSubscriptionEcdh reads or writes a field of the engine.  Of options,
\* the suspended call reads applicationServerKey only.
SubscribeStart(options) ==
    LET error == validateSubscribeOptions(options)
    IN  /\ Ready
        /\ IF error # NoError
           THEN /\ ret' = Rejected("subscribe", FALSE, [options |-> options], error)
                /\ UNCHANGED <<subscriptions, messages, notifyUrl, cliVars, processVars, objectPrototype,
                               calls, nDrawn>>
           ELSE /\ Room
                /\ nDrawn < MaxSubscriptions
                /\ nDrawn' = nDrawn + 1
                /\ calls' = Suspend(
                       [op |-> "subscribe",
                        applicationServerKey |-> OptionValue(options, "applicationServerKey"),
                        uniqueClientHash |-> randomHex32(nDrawn + 1),
                        uniqueAuthKey |-> base64UrlEncode(randomBytes16(nDrawn + 1)),
                        subscriptionDh |-> generateKeys(nDrawn + 1)])
                /\ UNCHANGED <<subscriptions, messages, notifyUrl, cliVars, processVars, objectPrototype, ret>>

\* subscriptionData that leaves the application server key out.
subscriptionDataNoServerKey(applicationServerKey, subscriptionDh, uniqueAuthKey) ==
    [applicationServerKey |-> Undefined,
     publicKey |-> toBase64(subscriptionDh.publicKey),
     subscriptionDh |-> subscriptionDh,
     auth |-> uniqueAuthKey,
     isExpired |-> FALSE]

\* The subscriptionData object createSubscription builds.
subscriptionData(applicationServerKey, subscriptionDh, uniqueAuthKey) ==
    [applicationServerKey |-> applicationServerKey,
     publicKey |-> toBase64(subscriptionDh.publicKey),
     subscriptionDh |-> subscriptionDh,
     auth |-> uniqueAuthKey,
     isExpired |-> FALSE]

\* The object createSubscription returns.
subscriptionReturn(url, uniqueClientHash, data) ==
    [endpoint |-> <<url, uniqueClientHash>>,
     keys |-> [p256dh |-> encodeBase64UrlString(data.publicKey),
               auth |-> encodeBase64UrlString(data.auth)],
     clientHash |-> uniqueClientHash]

\* storeSubscription into a registry that forgets the older subscriptions.
storeSubscriptionAlone(uniqueClientHash, data) == Put(<<>>, uniqueClientHash, data)

\* The registry after this.subscriptions[uniqueClientHash] = subscriptionData.
storeSubscription(uniqueClientHash, data) == Put(subscriptions, uniqueClientHash, data)

\* The .then callback of createSubscription: stores the subscription, returns.
SubscribeStore(c) ==
    /\ Ready
    /\ c.op = "subscribe"
    /\ LET data == subscriptionData(c.applicationServerKey, c.subscriptionDh, c.uniqueAuthKey)
       IN  /\ subscriptions' = storeSubscription(c.uniqueClientHash, data)
           /\ ret' = Resolved("subscribe", TRUE, [applicationServerKey |-> c.applicationServerKey],
                              subscriptionReturn(notifyUrl, c.uniqueClientHash, data))
    /\ calls' = Resume(c)
    /\ UNCHANGED <<messages, notifyUrl, cliVars, processVars, objectPrototype, nDrawn>>

---------------------------------------------------------------------------
\* expireSubscription, isSubscriptionExpired

\* markExpired that flips the flag instead of setting it.
markExpiredToggle(clientHash) ==
    [subscriptions EXCEPT ![clientHash] = [subscriptions[clientHash] EXCEPT !.isExpired = ~@]]

\* The registry after this.subscriptions[clientHash].isExpired = true.
markExpired(clientHash) ==
    [subscriptions EXCEPT ![clientHash] = [subscriptions[clientHash] EXCEPT !.isExpired = TRUE]]

\* this.subscriptions[clientHash]: the subscription stored under the key, for
\* the name __proto__ the prototype of the registry object, else undefined.
subscriptionAt(clientHash) ==
    IF hasOwnProperty(subscriptions, clientHash) THEN subscriptions[clientHash]
    ELSE IF clientHash = ProtoKey THEN ObjectPrototype
    ELSE Undefined

\* isSubscriptionExpired(clientHash): the flag of the object the lookup gives,
\* which for Object.prototype is the flag set on it, or undefined.
isSubscriptionExpired(clientHash) ==
    IF subscriptionAt(clientHash) = Undefined THEN FALSE
    ELSE IF hasOwnProperty(subscriptions, clientHash) THEN subscriptions[clientHash].isExpired
    ELSE OptionValue(objectPrototype, "isExpired")

\* What an outcome keeps of an expireSubscription: the key, and what the lookup
\* of the key gave when the call was made.
Looked(clientHash) == [clientHash |-> clientHash, found |-> subscriptionAt(clientHash)]

\* ExpireSubscription that takes a subscription that is expired already for
\* one that does not exist.
ExpireSubscriptionOnce(clientHash) ==
    /\ Ready
    /\ IF subscriptionAt(clientHash) = Undefined \/ isSubscriptionExpired(clientHash) = TRUE
       THEN /\ ret' = Rejected("expireSubscription", FALSE, Looked(clientHash),
                        Err("RangeError", "Subscription with specified client hash does not exist"))
            /\ UNCHANGED <<subscriptions, messages, notifyUrl, cliVars, processVars, objectPrototype,
                           calls, nDrawn>>
       ELSE /\ IF subscriptionAt(clientHash) = ObjectPrototype
               THEN /\ objectPrototype' = setProperty(objectPrototype, "isExpired", TRUE)
                    /\ UNCHANGED subscriptions
               ELSE /\ subscriptions' = markExpired(clientHash)
                    /\ UNCHANGED objectPrototype
            /\ ret' = Resolved("expireSubscription", FALSE, Looked(clientHash), Undefined)
            /\ UNCHANGED <<messages, notifyUrl, cliVars, processVars, calls, nDrawn>>

\* expireSubscription(clientHash): throws when the lookup gives undefined, and
\* sets isExpired on whatever object the lookup gives otherwise.
ExpireSubscription(clientHash) ==
    /\ Ready
    /\ IF subscriptionAt(clientHash) = Undefined
       THEN /\ ret' = Rejected("expireSubscription", FALSE, Looked(clientHash),
                        Err("RangeError", "Subscription with specified client hash does not exist"))
            /\ UNCHANGED <<subscriptions, messages, notifyUrl, cliVars, processVars, objectPrototype,
                           calls, nDrawn>>
       ELSE /\ IF subscriptionAt(clientHash) = ObjectPrototype
               THEN /\ objectPrototype' = setProperty(objectPrototype, "isExpired", TRUE)
                    /\ UNCHANGED subscriptions
               ELSE /\ subscriptions' = markExpired(clientHash)
                    /\ UNCHANGED objectPrototype
            /\ ret' = Resolved("expireSubscription", FALSE, Looked(clientHash), Undefined)
            /\ UNCHANGED <<messages, notifyUrl, cliVars, processVars, calls, nDrawn>>

---------------------------------------------------------------------------
\* getNotifications

\* Request bodies: without a clientHash, and with every clientHash.
RequestBodies ==
    { [someRandomElement |-> "test"] } \cup { [clientHash |-> h] : h \in NamedHashes }

\* Request bodies of callers that also name __proto__.
RequestBodiesAnyKey == RequestBodies \cup { [clientHash |-> ProtoKey] }

\* getNotifications that tests only that the request names a clientHash.
getNotificationsAnyHash(subs, msgs, requestBody) ==
    IF ~hasOwnProperty(requestBody, "clientHash")
    THEN [thrown |-> TRUE, error |-> Err("RangeError", "Client not subscribed")]
    ELSE LET clientHash == requestBody.clientHash
         IN  [thrown |-> FALSE,
              value |-> [messages |-> IF hasOwnProperty(msgs, clientHash)
                                      THEN msgs[clientHash] ELSE <<>>]]

\* What getNotifications(requestBody) throws or returns in registry subs and log msgs.
getNotifications(subs, msgs, requestBody) ==
    IF ~hasOwnProperty(requestBody, "clientHash")
       \/ ~hasOwnProperty(subs, requestBody.clientHash)
    THEN [thrown |-> TRUE, error |-> Err("RangeError", "Client not subscribed")]
    ELSE LET clientHash == requestBody.clientHash
         IN  [thrown |-> FALSE,
              value |-> [messages |-> IF hasOwnProperty(msgs, clientHash)
                                      THEN msgs[clientHash] ELSE <<>>]]

\* GetNotifications that creates the list it finds missing.
GetNotificationsCreatesList(requestBody) ==
    LET r == getNotifications(subscriptions, messages, requestBody)
    IN  /\ Ready
        /\ ret' = IF r.thrown
                  THEN Rejected("getNotifications", FALSE, requestBody, r.error)
                  ELSE Resolved("getNotifications", FALSE, requestBody, r.value)
        /\ messages' = IF r.thrown \/ hasOwnProperty(messages, requestBody.clientHash)
                       THEN messages
                       ELSE [k \in DOMAIN messages \cup {requestBody.clientHash} |->
                                IF k = requestBody.clientHash THEN <<>> ELSE messages[k]]
        /\ UNCHANGED <<subscriptions, notifyUrl, cliVars, processVars, objectPrototype, calls, nDrawn>>

GetNotifications(requestBody) ==
    LET r == getNotifications(subscriptions, messages, requestBody)
    IN  /\ Ready
        /\ ret' = IF r.thrown
                  THEN Rejected("getNotifications", FALSE, requestBody, r.error)
                  ELSE Resolved("getNotifications", FALSE, requestBody, r.value)
        /\ UNCHANGED <<subscriptions, messages, notifyUrl, cliVars, processVars, objectPrototype, calls, nDrawn>>

---------------------------------------------------------------------------
\* Notification headers and bodies

\* A compact token: the key that signed it and its state.
Jwt(signer, state) == [type |-> "string", signer |-> signer, state |-> state]

JwtA == Jwt(<<"A", 0>>, "valid")
JwtB == Jwt(<<"B", 0>>, "valid")
JwtExpiredA == Jwt(<<"A", 0>>, "expired")
JwtMalformed == Jwt(<<"", 0>>, "malformed")

\* An Authorization value: its first word, then either one more word (a token)
\* or a list of name=value fields.
AuthString(scheme, token, params) ==
    [type |-> "string", scheme |-> scheme, token |-> token, params |-> params]

EmptyString == AuthString("", Undefined, <<>>)
WebPush(token) == AuthString("WebPush", token, <<>>)
Bearer(token) == AuthString("Bearer", token, <<>>)
Vapid(t, k) == AuthString("vapid", Undefined, <<<<"t", t>>, <<"k", k>>>>)

\* A Crypto-Key value: its ;-separated name=value fields.
CryptoKey(fields) == [type |-> "string", fields |-> fields]

\* An Encryption value: its first five characters and the rest.
Encryption(head, rest) == [type |-> "string", head |-> head, rest |-> rest]

\* Sender keys of the dh field.
DhGood == B64(Buffer(65, 4, <<"D", 0>>), "url")
DhOther == B64(Buffer(65, 4, <<"E", 0>>), "url")
DhShort == B64(Buffer(16, 4, <<"D", 0>>), "url")
DhBadLead == B64(Buffer(65, 3, <<"D", 0>>), "url")

\* A body encrypted for the subscription of the n-th draw under one encoding,
\* by the sender with key DhGood and salt s1.
Ciphertext(n, version, text) ==
    [privateKey |-> n, authSecret |-> randomBytes16(n), version |-> version,
     dh |-> base64UrlDecode(DhGood), salt |-> "s1", text |-> text]

\* A body that is no ciphertext of any subscription.
Garbage == Ciphertext(0, "none", "")

\* ece.decrypt(body, eceParameters): the plaintext, or the error http_ece throws.
decrypt(body, eceParameters) ==
    IF /\ body.version = eceParameters.version
       /\ body.privateKey = eceParameters.privateKey
       /\ body.authSecret = eceParameters.authSecret
       /\ eceParameters.version = "aesgcm" =>
             /\ eceParameters.dh # Undefined
             /\ base64UrlDecode(eceParameters.dh) = body.dh
             /\ eceParameters.salt = body.salt
    THEN [thrown |-> FALSE, text |-> body.text]
    ELSE [thrown |-> TRUE, error |-> Err("Error", "decryption failed")]

Throw(error) == [thrown |-> TRUE, error |-> error]

---------------------------------------------------------------------------
\* The protocol validator

Digits == {"0", "1", "2", "3", "4", "5", "6", "7", "8", "9"}

\* parseInt(string, 10): the digits the string starts with, NaN when there are none.
parseInt(string) ==
    LET n == IF \E i \in 1..Len(string) : string[i] \notin Digits
             THEN (CHOOSE i \in 1..Len(string) :
                      /\ string[i] \notin Digits
                      /\ \A j \in 1..(i - 1) : string[j] \in Digits) - 1
             ELSE Len(string)
    IN  IF n = 0 THEN [isNaN |-> TRUE] ELSE [isNaN |-> FALSE, digits |-> SubSeq(string, 1, n)]

isNaN(number) == number.isNaN

\* getParametersFromHeaderFields: parameters[parameter] = value for each field
\* in turn, so the last field of a name wins.
getParametersFromHeaderFields(headerFields) ==
    LET names == { headerFields[i][1] : i \in 1..Len(headerFields) }
        last(name) == CHOOSE i \in 1..Len(headerFields) :
                         /\ headerFields[i][1] = name
                         /\ \A j \in 1..Len(headerFields) : headerFields[j][1] = name => j <= i
    IN  [name \in names |-> headerFields[last(name)][2]]

\* getCryptoKeyHeaderFields that looks at the length of dh only.
getCryptoKeyHeaderFieldsAnyLead(headerString, isVapid) ==
    IF headerString = Undefined THEN Throw(TypeErrorOf("split of undefined"))
    ELSE LET cryptoKeyParameters == getParametersFromHeaderFields(headerString.fields)
         IN  IF \/ ~hasOwnProperty(cryptoKeyParameters, "dh")
                \/ (isVapid /\ ~hasOwnProperty(cryptoKeyParameters, "p256ecdsa"))
             THEN Throw(Err("Error", "Invalid Crypto-Key header sent"))
             ELSE LET notificationDhBytes == base64UrlDecode(cryptoKeyParameters.dh)
                  IN  IF notificationDhBytes.length # 65
                      THEN Throw(Err("Error", "Invalid Crypto-Key header sent"))
                      ELSE [thrown |-> FALSE,
                            dh |-> cryptoKeyParameters.dh,
                            p256ecdsa |-> Get(cryptoKeyParameters, "p256ecdsa")]

\* getCryptoKeyHeaderFields: the fields dh and p256ecdsa, or the error thrown.
getCryptoKeyHeaderFields(headerString, isVapid) ==
    IF headerString = Undefined THEN Throw(TypeErrorOf("split of undefined"))
    ELSE LET cryptoKeyParameters == getParametersFromHeaderFields(headerString.fields)
         IN  IF \/ ~hasOwnProperty(cryptoKeyParameters, "dh")
                \/ (isVapid /\ ~hasOwnProperty(cryptoKeyParameters, "p256ecdsa"))
             THEN Throw(Err("Error", "Invalid Crypto-Key header sent"))
             ELSE LET notificationDhBytes == base64UrlDecode(cryptoKeyParameters.dh)
                  IN  IF notificationDhBytes.length # 65 \/ notificationDhBytes.first # 4
                      THEN Throw(Err("Error", "Invalid Crypto-Key header sent"))
                      ELSE [thrown |-> FALSE,
                            dh |-> cryptoKeyParameters.dh,
                            p256ecdsa |-> Get(cryptoKeyParameters, "p256ecdsa")]

getVapidHeaderFields(headerString) ==
    IF headerString = Undefined THEN Throw(TypeErrorOf("substr of undefined"))
    ELSE IF headerString.scheme # "vapid"
    THEN Throw(Err("Error", "Invalid Authorization header sent"))
    ELSE LET authenticationParameters == getParametersFromHeaderFields(headerString.params)
         IN  IF \/ ~hasOwnProperty(authenticationParameters, "t")
                \/ ~hasOwnProperty(authenticationParameters, "k")
             THEN Throw(Err("Error", "Invalid Authorization header sent"))
             ELSE [thrown |-> FALSE,
                   t |-> authenticationParameters.t, k |-> authenticationParameters.k]

\* validateNotificationHeaders that asks every subscription for an
\* authorization header.
validateNotificationHeadersOfAll(subscription, headers) ==
    IF \/ ~hasOwnProperty(headers, "encoding")
       \/ (headers.encoding # "aesgcm" /\ headers.encoding # "aes128gcm")
    THEN Err("Error", "Unsupported encoding")
    ELSE IF ~hasOwnProperty(headers, "ttl") \/ isNaN(parseInt(headers.ttl))
    THEN Err("Error", "TTL header is invalid: ...")
    ELSE IF ~hasOwnProperty(headers, "authorization") \/ headers.authorization = EmptyString
    THEN Err("RangeError", "Missing or invalid authorization header")
    ELSE NoError

\* validateNotificationHeaders that checks the TTL before the encoding.
validateNotificationHeadersTtlFirst(subscription, headers) ==
    IF ~hasOwnProperty(headers, "ttl") \/ isNaN(parseInt(headers.ttl))
    THEN Err("Error", "TTL header is invalid: ...")
    ELSE IF \/ ~hasOwnProperty(headers, "encoding")
            \/ (headers.encoding # "aesgcm" /\ headers.encoding # "aes128gcm")
    THEN Err("Error", "Unsupported encoding")
    ELSE IF /\ subscription.applicationServerKey # Undefined
            /\ (~hasOwnProperty(headers, "authorization") \/ headers.authorization = EmptyString)
    THEN Err("RangeError", "Missing or invalid authorization header")
    ELSE NoError

\* validateNotificationHeaders that takes the TTL 0 for no TTL.
validateNotificationHeadersNoZeroTtl(subscription, headers) ==
    IF \/ ~hasOwnProperty(headers, "encoding")
       \/ (headers.encoding # "aesgcm" /\ headers.encoding # "aes128gcm")
    THEN Err("Error", "Unsupported encoding")
    ELSE IF \/ ~hasOwnProperty(headers, "ttl")
            \/ isNaN(parseInt(headers.ttl))
            \/ parseInt(headers.ttl).digits = <<"0">>
    THEN Err("Error", "TTL header is invalid: ...")
    ELSE IF /\ subscription.applicationServerKey # Undefined
            /\ (~hasOwnProperty(headers, "authorization") \/ headers.authorization = EmptyString)
    THEN Err("RangeError", "Missing or invalid authorization header")
    ELSE NoError

\* validateNotificationHeaders: the error thrown, or NoError.
validateNotificationHeaders(subscription, headers) ==
    IF \/ ~hasOwnProperty(headers, "encoding")
       \/ (headers.encoding # "aesgcm" /\ headers.encoding # "aes128gcm")
    THEN Err("Error", "Unsupported encoding")
    ELSE IF ~hasOwnProperty(headers, "ttl") \/ isNaN(parseInt(headers.ttl))
    THEN Err("Error", "TTL header is invalid: ...")
    ELSE IF /\ subscription.applicationServerKey # Undefined
            /\ (~hasOwnProperty(headers, "authorization") \/ headers.authorization = EmptyString)
    THEN Err("RangeError", "Missing or invalid authorization header")
    ELSE NoError

\* validateCrypto: the error thrown, or NoError.  crypto.timingSafeEqual throws
\* a RangeError of its own for buffers of different lengths.
validateCrypto(publicServerKey, savedPublicServerKey) ==
    LET notificationEcdsaBytes == base64UrlDecode(publicServerKey)
        serverKeyBytes == base64UrlDecode(savedPublicServerKey)
    IN  IF notificationEcdsaBytes.length # serverKeyBytes.length
        THEN Err("RangeError", "Input buffers must have the same byte length")
        ELSE IF notificationEcdsaBytes # serverKeyBytes
        THEN Err("Error", "Invalid Crypto-Key header sent")
        ELSE NoError

\* validateAuthorizationHeader that accepts a token after its expiry.
validateAuthorizationHeaderAnyAge(clientHash, jwt) ==
    LET publicKey == importVapidKey(decodeBase64UrlString(subscriptions[clientHash].applicationServerKey))
    IN  IF /\ publicKey # Undefined
           /\ jwt # Undefined
           /\ jwt.state \in {"valid", "expired"}
           /\ jwt.signer = publicKey.bytes.id
        THEN NoError
        ELSE Err("RangeError", "Invalid authentication token supplied")

\* validateAuthorizationHeader that decodes the token without verifying its
\* signature.
validateAuthorizationHeaderUnverified(clientHash, jwt) ==
    IF jwt # Undefined /\ jwt.state = "valid"
    THEN NoError
    ELSE Err("RangeError", "Invalid authentication token supplied")

\* validateAuthorizationHeader, once awaited: jsonwebtoken.verify against the
\* stored application server key, every failure rethrown as one RangeError.
\* The key is read when the call is made; no code changes the key of a stored
\* subscription, so it is the key found when the call resumes.
validateAuthorizationHeader(clientHash, jwt) ==
    LET publicKey == importVapidKey(decodeBase64UrlString(subscriptions[clientHash].applicationServerKey))
    IN  IF /\ publicKey # Undefined
           /\ jwt # Undefined
           /\ jwt.state = "valid"
           /\ jwt.signer = publicKey.bytes.id
        THEN NoError
        ELSE Err("RangeError", "Invalid authentication token supplied")

---------------------------------------------------------------------------
\* handleNotification

\* The representative notifications: one well-formed request per encoding, and
\* requests that fail at each stage.
AesgcmHeaders ==
    [encoding |-> "aesgcm", ttl |-> <<"6", "0">>, authorization |-> WebPush(JwtA),
     encryption |-> Encryption("salt=", "s1"),
     cryptoKey |-> CryptoKey(<<<<"dh", DhGood>>, <<"p256ecdsa", KeyA>>>>)]

Aes128gcmHeaders ==
    [encoding |-> "aes128gcm", ttl |-> <<"0">>, authorization |-> Vapid(JwtA, KeyA)]

Without(object, key) == [k \in DOMAIN object \ {key} |-> object[k]]

WithoutAll(object, keys) == [k \in DOMAIN object \ keys |-> object[k]]

\* The bodies sent: the text hello encrypted under aesgcm and the text world
\* under aes128gcm, each for the subscription the request names, and a body
\* that is no ciphertext.
Bodies == {"hello", "world", "garbage"}

bodyFor(clientHash, body) ==
    CASE body = "hello" -> Ciphertext(clientHash, "aesgcm", "hello")
      [] body = "world" -> Ciphertext(clientHash, "aes128gcm", "world")
      [] OTHER -> Garbage

NotifyInputs ==
    LET request(pushHeaders, body) == [pushHeaders |-> pushHeaders, body |-> body]
    IN  { request(AesgcmHeaders, "hello"),
          request(Aes128gcmHeaders, "world"),
          request(AesgcmHeaders, "garbage"),
          request(<<>>, "hello"),
          request([AesgcmHeaders EXCEPT !.ttl = <<>>], "hello"),
          request([AesgcmHeaders EXCEPT !.authorization = Bearer(JwtA)], "hello"),
          request([AesgcmHeaders EXCEPT !.authorization = WebPush(JwtB)], "hello"),
          request([Without(AesgcmHeaders, "authorization") EXCEPT !.cryptoKey =
                      CryptoKey(<<<<"dh", DhShort>>>>)], "hello"),
          request([AesgcmHeaders EXCEPT !.encoding = "wrong"], "hello"),
          request([AesgcmHeaders EXCEPT !.authorization = EmptyString], "hello") }

\* The headers of the test 'Invalid authorization header for aesgcm': a
\* one-word Authorization value and a Crypto-Key value whose dh is too short
\* and which names no p256ecdsa.
InvalidAuthorizationHeaders ==
    [AesgcmHeaders EXCEPT !.authorization = AuthString("Invalid", Undefined, <<>>),
                          !.cryptoKey = CryptoKey(<<<<"dh", DhShort>>>>)]

\* Notifications with headers the tests do not send: a header object without
\* cryptoKey or without encryption, one whose authorization is undefined (as
\* the server builds it for a request without that header), and a p256ecdsa
\* key that is shorter than the stored one; and the notification of the test
\* 'Invalid authorization header for aesgcm', once as the test sends it and once
\* with a token that another key has signed.
NotifyInputsAnyInput ==
    NotifyInputs \cup
    { [pushHeaders |-> Without(AesgcmHeaders, "cryptoKey"), body |-> "hello"],
      [pushHeaders |-> Without(AesgcmHeaders, "encryption"), body |-> "hello"],
      [pushHeaders |-> [AesgcmHeaders EXCEPT !.authorization = Undefined], body |-> "hello"],
      [pushHeaders |-> [Aes128gcmHeaders EXCEPT !.authorization = Undefined], body |-> "world"],
      [pushHeaders |-> [AesgcmHeaders EXCEPT !.cryptoKey =
                           CryptoKey(<<<<"dh", DhGood>>, <<"p256ecdsa", KeyNope>>>>)],
       body |-> "hello"],
      [pushHeaders |-> InvalidAuthorizationHeaders, body |-> "garbage"],
      [pushHeaders |-> [InvalidAuthorizationHeaders EXCEPT !.authorization = WebPush(JwtB)],
       body |-> "garbage"] }

\* The words of authorization.split(' '): the type and the token.  The second
\* word of a field list is text that is no token.
splitAuthorization(authorization) ==
    [type |-> authorization.scheme,
     jwt |-> IF authorization.params # <<>> THEN JwtMalformed ELSE authorization.token]

SubscriptionExpiredError == Err("SubscriptionExpiredError", "Subscription expired")

\* notifyEntry that validates the headers before it looks at the expiry flag.
notifyEntryValidatesFirst(clientHash, pushHeaders) ==
    IF ~hasOwnProperty(subscriptions, clientHash)
    THEN [kind |-> "throw", error |-> Err("RangeError", "Client not subscribed")]
    ELSE
    LET currentSubscription == subscriptions[clientHash]
        isVapid == currentSubscription.applicationServerKey # Undefined
        invalid == validateNotificationHeaders(currentSubscription, pushHeaders)
        authorization == Get(pushHeaders, "authorization")
    IN  IF invalid # NoError THEN [kind |-> "throw", error |-> invalid]
        ELSE IF isSubscriptionExpired(clientHash)
        THEN [kind |-> "throw", error |-> SubscriptionExpiredError]
        ELSE IF pushHeaders.encoding = "aesgcm"
        THEN IF ~isVapid THEN [kind |-> "run", isVapid |-> isVapid]
             ELSE IF authorization = Undefined
             THEN [kind |-> "throw", error |-> TypeErrorOf("split of undefined")]
             ELSE LET words == splitAuthorization(authorization)
                  IN  IF words.type # "WebPush" \/ words.jwt = Undefined
                      THEN [kind |-> "throw",
                            error |-> Err("Error", "Invalid Authorization header sent")]
                      ELSE [kind |-> "await", isVapid |-> isVapid, jwt |-> words.jwt]
        ELSE IF isVapid /\ pushHeaders.encoding = "aes128gcm"
        THEN LET fields == getVapidHeaderFields(authorization)
             IN  IF fields.thrown THEN [kind |-> "throw", error |-> fields.error]
                 ELSE LET mismatch == validateCrypto(fields.k, currentSubscription.applicationServerKey)
                      IN  IF mismatch # NoError THEN [kind |-> "throw", error |-> mismatch]
                          ELSE [kind |-> "await", isVapid |-> isVapid, jwt |-> fields.t]
        ELSE [kind |-> "run", isVapid |-> isVapid]

\* notifyEntry that looks the clientHash up in the registry only after it has
\* validated the headers.
notifyEntryLooksUpLast(clientHash, pushHeaders) ==
    LET known == hasOwnProperty(subscriptions, clientHash)
        currentSubscription == IF known THEN subscriptions[clientHash]
                               ELSE [applicationServerKey |-> Undefined]
        isVapid == currentSubscription.applicationServerKey # Undefined
        invalid == validateNotificationHeaders(currentSubscription, pushHeaders)
        authorization == Get(pushHeaders, "authorization")
    IN  IF known /\ isSubscriptionExpired(clientHash)
        THEN [kind |-> "throw", error |-> SubscriptionExpiredError]
        ELSE IF invalid # NoError THEN [kind |-> "throw", error |-> invalid]
        ELSE IF ~known
        THEN [kind |-> "throw", error |-> Err("RangeError", "Client not subscribed")]
        ELSE IF pushHeaders.encoding = "aesgcm"
        THEN IF ~isVapid THEN [kind |-> "run", isVapid |-> isVapid]
             ELSE IF authorization = Undefined
             THEN [kind |-> "throw", error |-> TypeErrorOf("split of undefined")]
             ELSE LET words == splitAuthorization(authorization)
                  IN  IF words.type # "WebPush" \/ words.jwt = Undefined
                      THEN [kind |-> "throw",
                            error |-> Err("Error", "Invalid Authorization header sent")]
                      ELSE [kind |-> "await", isVapid |-> isVapid, jwt |-> words.jwt]
        ELSE IF isVapid /\ pushHeaders.encoding = "aes128gcm"
        THEN LET fields == getVapidHeaderFields(authorization)
             IN  IF fields.thrown THEN [kind |-> "throw", error |-> fields.error]
                 ELSE LET mismatch == validateCrypto(fields.k, currentSubscription.applicationServerKey)
                      IN  IF mismatch # NoError THEN [kind |-> "throw", error |-> mismatch]
                          ELSE [kind |-> "await", isVapid |-> isVapid, jwt |-> fields.t]
        ELSE [kind |-> "run", isVapid |-> isVapid]

\* notifyEntry that, under aesgcm, parses Crypto-Key and compares the key
\* before it looks at the Authorization value.
notifyEntryCryptoKeyFirst(clientHash, pushHeaders) ==
    IF ~hasOwnProperty(subscriptions, clientHash)
    THEN [kind |-> "throw", error |-> Err("RangeError", "Client not subscribed")]
    ELSE IF isSubscriptionExpired(clientHash)
    THEN [kind |-> "throw", error |-> SubscriptionExpiredError]
    ELSE
    LET currentSubscription == subscriptions[clientHash]
        isVapid == currentSubscription.applicationServerKey # Undefined
        invalid == validateNotificationHeaders(currentSubscription, pushHeaders)
        authorization == Get(pushHeaders, "authorization")
    IN  IF invalid # NoError THEN [kind |-> "throw", error |-> invalid]
        ELSE IF pushHeaders.encoding = "aesgcm"
        THEN IF ~isVapid THEN [kind |-> "run", isVapid |-> isVapid]
             ELSE LET cryptoKey == getCryptoKeyHeaderFields(Get(pushHeaders, "cryptoKey"), isVapid)
                      differs == validateCrypto(cryptoKey.p256ecdsa,
                                                currentSubscription.applicationServerKey)
                  IN  IF cryptoKey.thrown THEN [kind |-> "throw", error |-> cryptoKey.error]
                      ELSE IF differs # NoError THEN [kind |-> "throw", error |-> differs]
                      ELSE IF authorization = Undefined
                      THEN [kind |-> "throw", error |-> TypeErrorOf("split of undefined")]
                      ELSE LET words == splitAuthorization(authorization)
                           IN  IF words.type # "WebPush" \/ words.jwt = Undefined
                               THEN [kind |-> "throw",
                                     error |-> Err("Error", "Invalid Authorization header sent")]
                               ELSE [kind |-> "await", isVapid |-> isVapid, jwt |-> words.jwt]
        ELSE IF isVapid /\ pushHeaders.encoding = "aes128gcm"
        THEN LET fields == getVapidHeaderFields(authorization)
             IN  IF fields.thrown THEN [kind |-> "throw", error |-> fields.error]
                 ELSE LET mismatch == validateCrypto(fields.k, currentSubscription.applicationServerKey)
                      IN  IF mismatch # NoError THEN [kind |-> "throw", error |-> mismatch]
                          ELSE [kind |-> "await", isVapid |-> isVapid, jwt |-> fields.t]
        ELSE [kind |-> "run", isVapid |-> isVapid]

\* handleNotification from its first line to its first await: what it throws,
\* the token it suspends to have verified, or that it runs on to decryption.
notifyEntry(clientHash, pushHeaders) ==
    IF ~hasOwnProperty(subscriptions, clientHash)
    THEN [kind |-> "throw", error |-> Err("RangeError", "Client not subscribed")]
    ELSE IF isSubscriptionExpired(clientHash)
    THEN [kind |-> "throw", error |-> SubscriptionExpiredError]
    ELSE
    LET currentSubscription == subscriptions[clientHash]
        isVapid == currentSubscription.applicationServerKey # Undefined
        invalid == validateNotificationHeaders(currentSubscription, pushHeaders)
        authorization == Get(pushHeaders, "authorization")
    IN  IF invalid # NoError THEN [kind |-> "throw", error |-> invalid]
        ELSE IF pushHeaders.encoding = "aesgcm"
        THEN IF ~isVapid THEN [kind |-> "run", isVapid |-> isVapid]
             ELSE IF authorization = Undefined
             THEN [kind |-> "throw", error |-> TypeErrorOf("split of undefined")]
             ELSE LET words == splitAuthorization(authorization)
                  IN  IF words.type # "WebPush" \/ words.jwt = Undefined
                      THEN [kind |-> "throw",
                            error |-> Err("Error", "Invalid Authorization header sent")]
                      ELSE [kind |-> "await", isVapid |-> isVapid, jwt |-> words.jwt]
        ELSE IF isVapid /\ pushHeaders.encoding = "aes128gcm"
        THEN LET fields == getVapidHeaderFields(authorization)
             IN  IF fields.thrown THEN [kind |-> "throw", error |-> fields.error]
                 ELSE LET mismatch == validateCrypto(fields.k, currentSubscription.applicationServerKey)
                      IN  IF mismatch # NoError THEN [kind |-> "throw", error |-> mismatch]
                          ELSE [kind |-> "await", isVapid |-> isVapid, jwt |-> fields.t]
        ELSE [kind |-> "run", isVapid |-> isVapid]

\* ece.decrypt with the parameters handleNotification builds.
decryptBody(clientHash, version, dh, salt, body) ==
    LET currentSubscription == subscriptions[clientHash]
    IN  decrypt(body, [version |-> version, dh |-> dh, salt |-> salt,
                       privateKey |-> currentSubscription.subscriptionDh.privateKey,
                       authSecret |-> base64UrlDecode(currentSubscription.auth)])

\* handleNotification from the end of the token check to ece.decrypt: what it
\* throws, or the plaintext.
notifyTail(clientHash, pushHeaders, body, isVapid) ==
    IF pushHeaders.encoding = "aesgcm"
    THEN LET fields == getCryptoKeyHeaderFields(Get(pushHeaders, "cryptoKey"), isVapid)
             mismatch == IF isVapid
                         THEN validateCrypto(fields.p256ecdsa,
                                             subscriptions[clientHash].applicationServerKey)
                         ELSE NoError
             encryption == Get(pushHeaders, "encryption")
         IN  IF fields.thrown THEN Throw(fields.error)
             ELSE IF mismatch # NoError THEN Throw(mismatch)
             ELSE IF encryption = Undefined THEN Throw(TypeErrorOf("substr of undefined"))
             ELSE decryptBody(clientHash, "aesgcm", fields.dh, encryption.rest, body)
    ELSE decryptBody(clientHash, pushHeaders.encoding, Undefined, Undefined, body)

\* appendMessage that puts the text in front of the list.
appendMessageFront(clientHash, text) ==
    IF hasOwnProperty(messages, clientHash)
    THEN [messages EXCEPT ![clientHash] = <<text>> \o messages[clientHash]]
    ELSE Put(messages, clientHash, <<text>>)

\* appendMessage that always starts a new list.
appendMessageNewList(clientHash, text) == Put(messages, clientHash, <<text>>)

\* The log after the last lines of handleNotification: the text is pushed to
\* the list of the hash, or becomes a new list.
appendMessage(clientHash, text) ==
    IF hasOwnProperty(messages, clientHash)
    THEN [messages EXCEPT ![clientHash] = Append(messages[clientHash], text)]
    ELSE Put(messages, clientHash, <<text>>)

RECURSIVE TotalLength(_, _)
TotalLength(log, hashes) ==
    IF hashes = {} THEN 0
    ELSE LET h == CHOOSE x \in hashes : TRUE
         IN  Len(log[h]) + TotalLength(log, hashes \ {h})

\* The model takes a notification that may be stored while the log, with every
\* suspended notification stored, stays within MaxMessages.
Capacity ==
    LET notifying == { c \in Suspended : c.op = "handleNotification" }
    IN  TotalLength(messages, DOMAIN messages)
          + BagCardinality([c \in notifying |-> calls[c]]) < MaxMessages

\* What an outcome keeps of a notification: whom it was sent to and its body.
Sent(input) == [clientHash |-> input.clientHash, body |-> input.body]

\* NotifyFinish that stores what it was sent before it has decrypted it.
NotifyFinishStoresFirst(awaited, input, isVapid) ==
    LET result == notifyTail(input.clientHash, input.pushHeaders, input.body, isVapid)
    IN  /\ messages' = appendMessage(input.clientHash, input.body.text)
        /\ ret' = IF result.thrown
                  THEN Rejected("handleNotification", awaited, Sent(input), result.error)
                  ELSE Resolved("handleNotification", awaited, Sent(input), Undefined)

\* The rest of handleNotification once no await is left: it throws, or it
\* decrypts and stores.
NotifyFinish(awaited, input, isVapid) ==
    LET result == notifyTail(input.clientHash, input.pushHeaders, input.body, isVapid)
    IN  IF result.thrown
        THEN /\ ret' = Rejected("handleNotification", awaited, Sent(input), result.error)
             /\ UNCHANGED messages
        ELSE /\ messages' = appendMessage(input.clientHash, result.text)
             /\ ret' = Resolved("handleNotification", awaited, Sent(input), Undefined)

\* handleNotification(clientHash, pushHeaders, body) up to its first await, or
\* to its end when it awaits nothing.
NotifyStart(clientHash, pushHeaders, body) ==
    LET input == [clientHash |-> clientHash, pushHeaders |-> pushHeaders, body |-> body]
        entry == notifyEntry(clientHash, pushHeaders)
    IN  /\ Ready
        /\ \/ /\ entry.kind = "throw"
              /\ ret' = Rejected("handleNotification", FALSE, Sent(input), entry.error)
              /\ UNCHANGED <<messages, calls>>
           \/ /\ entry.kind = "await"
              /\ Room
              /\ Capacity
              /\ calls' = Suspend(
                     [op |-> "handleNotification", input |-> input,
                      isVapid |-> entry.isVapid, jwt |-> entry.jwt])
              /\ UNCHANGED <<messages, ret>>
           \/ /\ entry.kind = "run"
              /\ Capacity
              /\ NotifyFinish(FALSE, input, entry.isVapid)
              /\ UNCHANGED calls
        /\ UNCHANGED <<subscriptions, notifyUrl, cliVars, processVars, objectPrototype, nDrawn>>

\* NotifyResume that leaves a call whose token it rejects among the suspended
\* calls.
NotifyResumeKeepsRejected(c) ==
    /\ Ready
    /\ c.op = "handleNotification"
    /\ LET invalid == validateAuthorizationHeader(c.input.clientHash, c.jwt)
       IN  IF invalid # NoError
           THEN /\ ret' = Rejected("handleNotification", TRUE, Sent(c.input), invalid)
                /\ calls' = calls
                /\ UNCHANGED messages
           ELSE /\ NotifyFinish(TRUE, c.input, c.isVapid)
                /\ calls' = Resume(c)
    /\ UNCHANGED <<subscriptions, notifyUrl, cliVars, processVars, objectPrototype, nDrawn>>

\* NotifyResume that gives the subscription a new key pair after it has stored
\* a message.
NotifyResumeRenewsKeys(c) ==
    /\ Ready
    /\ c.op = "handleNotification"
    /\ LET invalid == validateAuthorizationHeader(c.input.clientHash, c.jwt)
       IN  IF invalid # NoError
           THEN /\ ret' = Rejected("handleNotification", TRUE, Sent(c.input), invalid)
                /\ UNCHANGED messages
           ELSE NotifyFinish(TRUE, c.input, c.isVapid)
    /\ subscriptions' = IF messages' # messages
                        THEN [subscriptions EXCEPT ![c.input.clientHash].subscriptionDh =
                                 generateKeys(0)]
                        ELSE subscriptions
    /\ calls' = Resume(c)
    /\ UNCHANGED <<notifyUrl, cliVars, processVars, objectPrototype, nDrawn>>

\* handleNotification from the return of validateAuthorizationHeader to its end.
NotifyResume(c) ==
    /\ Ready
    /\ c.op = "handleNotification"
    /\ LET invalid == validateAuthorizationHeader(c.input.clientHash, c.jwt)
       IN  IF invalid # NoError
           THEN /\ ret' = Rejected("handleNotification", TRUE, Sent(c.input), invalid)
                /\ UNCHANGED messages
           ELSE NotifyFinish(TRUE, c.input, c.isVapid)
    /\ calls' = Resume(c)
    /\ UNCHANGED <<subscriptions, notifyUrl, cliVars, processVars, objectPrototype, nDrawn>>

---------------------------------------------------------------------------
\* The notify endpoint of the server

\* err instanceof RangeError
instanceofRangeError(err) == err.name = "RangeError"

\* handleNotificationResponse that answers 410 to an expired subscription only.
handleNotificationResponseGoneIfExpired(outcome) ==
    IF outcome.settled = "resolved"
    THEN [status |-> 201, body |-> outcome.value]
    ELSE [status |-> IF outcome.error = SubscriptionExpiredError THEN 410 ELSE 400,
          body |-> [error |-> [message |-> outcome.error.message]]]

\* The response WebPushTestingServer.handleNotification sends for the outcome of
\* the engine's handleNotification: its .then and .catch callbacks.
handleNotificationResponse(outcome) ==
    IF outcome.settled = "resolved"
    THEN [status |-> 201, body |-> outcome.value]
    ELSE [status |-> IF instanceofRangeError(outcome.error) THEN 400 ELSE 410,
          body |-> [error |-> [message |-> outcome.error.message]]]

\* The paths setRequestHandlers registers a handler for.
Routes == {"/status", "/subscribe", "/notify/:clientHash", "/get-notifications"}

\* POST /expire-subscription/<clientHash>: the server calls the handler of the
\* route that matches the path and answers 404 when none does.  A handler of
\* this route is not part of the server.
PostExpireSubscription(clientHash) ==
    /\ Ready
    /\ "/expire-subscription/:clientHash" \notin Routes
    /\ ret' = [op |-> "POST /expire-subscription", settled |-> "unrouted",
               input |-> [clientHash |-> clientHash], response |-> [status |-> 404]]
    /\ UNCHANGED <<subscriptions, messages, notifyUrl, cliVars, processVars, objectPrototype, calls, nDrawn>>

---------------------------------------------------------------------------
\* The command line: class WebPushTestingCli, and the servers it spawns.
\* A command is a process of its own.  It ends with process.exit, or it waits
\* for an event: start for the output or the exit of the server it spawned,
\* stop for the callback of ps.kill.  Commands share the persisted store.

\* What arg() makes of the command line: the port of -p or --port under the
\* name --port, and the words that are no options under the name _.
cliArgsOf(port, words) ==
    IF port = DefaultPort THEN [_ |-> words]
    ELSE ("--port" :> port) @@ [_ |-> words]

CliInputs ==
    { cliArgsOf(port, words) :
        port \in {DefaultPort, TestPort},
        words \in {<<"start">>, <<"stop">>, <<"restart">>, <<>>} }

\* process.exit(code) after the first line written to the console.
Exited(op, port, code, log) ==
    [op |-> op, settled |-> "exited", input |-> [port |-> port], code |-> code, log |-> log]

\* getProcessData(): the stored item, or {} when none is stored.
getProcessData ==
    IF hasOwnProperty(storage, "processData") THEN storage.processData ELSE <<>>

\* this.storage.setItemSync('processData', processData)
setItemSync(processData) == Put(storage, "processData", processData)

\* The command waits: the model lets fewer than MaxCli commands wait.
CliRoom == BagCardinality(clis) < MaxCli

Waiting == BagToSet(clis)

\* startService that spawns a server also for a port that has an entry.
startServiceUnchecked(port) ==
    LET processData == getProcessData
        pid == Len(servers) + 1
    IN  /\ CliRoom
        /\ Len(servers) < MaxServers
        /\ servers' = Append(servers, [port |-> port, status |-> "spawned"])
        /\ clis' = clis (+) SetToBag({[command |-> "start", port |-> port,
                                       processData |-> processData, pid |-> pid]})
        /\ UNCHANGED <<ret, storage>>

\* startService(): refuses a port that has an entry; else spawns the server
\* and waits for its output or its exit.  The pid of the n-th server is n.
startService(port) ==
    LET processData == getProcessData
        pid == Len(servers) + 1
    IN  IF hasOwnProperty(processData, port)
        THEN /\ ret' = Exited("start", port, 1, "Server seems to already run on port")
             /\ UNCHANGED <<storage, servers, clis>>
        ELSE /\ CliRoom
             /\ Len(servers) < MaxServers
             /\ servers' = Append(servers, [port |-> port, status |-> "spawned"])
             /\ clis' = clis (+) SetToBag({[command |-> "start", port |-> port,
                                            processData |-> processData, pid |-> pid]})
             /\ UNCHANGED <<ret, storage>>

\* process.kill(pid): a server that runs is killed, one that has ended stays
\* as it ended.
killed(pid) ==
    IF servers[pid].status \in {"spawned", "listening"}
    THEN [servers EXCEPT ![pid].status = "killed"]
    ELSE servers

\* stopService as src/src/cli.js has it: exit code 0 for a port without entry.
stopServiceExitsZero(port) ==
    LET processData == getProcessData
    IN  IF ~hasOwnProperty(processData, port)
        THEN /\ ret' = Exited("stop", port, 0, "Server does not seem to run on port")
             /\ UNCHANGED <<storage, servers, clis>>
        ELSE /\ CliRoom
             /\ servers' = killed(processData[port])
             /\ clis' = clis (+) SetToBag({[command |-> "stop", port |-> port,
                                            processData |-> processData,
                                            pid |-> processData[port]]})
             /\ UNCHANGED <<ret, storage>>

\* stopService(): refuses a port without entry; else has ps.kill send the
\* signal and waits for its callback.
stopService(port) ==
    LET processData == getProcessData
    IN  IF ~hasOwnProperty(processData, port)
        THEN /\ ret' = Exited("stop", port, 1, "Server does not seem to run on port")
             /\ UNCHANGED <<storage, servers, clis>>
        ELSE /\ CliRoom
             /\ servers' = killed(processData[port])
             /\ clis' = clis (+) SetToBag({[command |-> "stop", port |-> port,
                                            processData |-> processData,
                                            pid |-> processData[port]]})
             /\ UNCHANGED <<ret, storage>>

\* new WebPushTestingCli(): handleCliArguments and handleCommand.  More than
\* one command is not sent.
Cli(cliArgs) ==
    LET port == IF hasOwnProperty(cliArgs, "--port") THEN cliArgs["--port"] ELSE DefaultPort
        words == cliArgs["_"]
    IN  /\ Ready
        /\ IF Len(words) = 0
           THEN /\ ret' = Exited("none", port, 1, "No command passed.")
                /\ UNCHANGED <<storage, servers, clis>>
           ELSE IF words[Len(words)] = "start" THEN startService(port)
           ELSE IF words[Len(words)] = "stop" THEN stopService(port)
           ELSE /\ ret' = Exited(words[Len(words)], port, 1, "Invalid command: ")
                /\ UNCHANGED <<storage, servers, clis>>
        /\ UNCHANGED <<processVars, subscriptions, messages, notifyUrl, objectPrototype, calls, nDrawn,
                       listening>>

\* No server and no other program listens on the port.
portFree(port) ==
    /\ port \notin listening
    /\ \A pid \in DOMAIN servers :
          servers[pid].status = "listening" => servers[pid].port # port

\* bin/server.js, startServer(): the server listens and writes that it runs,
\* or its 'error' handler writes the error to the console and exits with 1.
ServerListen(pid) ==
    /\ Ready
    /\ servers[pid].status = "spawned"
    /\ servers' = [servers EXCEPT ![pid].status =
                      IF portFree(servers[pid].port) THEN "listening" ELSE "failed"]
    /\ UNCHANGED <<processVars, subscriptions, messages, notifyUrl, objectPrototype, calls, nDrawn, ret,
                   storage, clis, listening>>

\* testingServer.stdout.on('data'): the server has written to its output,
\* that it runs or the error it ends with.
onStdoutData(c) ==
    /\ Ready
    /\ c.command = "start"
    /\ servers[c.pid].status \in {"listening", "failed"}
    /\ storage' = setItemSync(Put(c.processData, c.port, c.pid))
    /\ ret' = Exited("start", c.port, 0,
                     IF servers[c.pid].status = "listening" THEN "Server running on port"
                     ELSE "Error: listen EADDRINUSE")
    /\ clis' = clis (-) SetToBag({c})
    /\ UNCHANGED <<processVars, subscriptions, messages, notifyUrl, objectPrototype, calls, nDrawn,
                   servers, listening>>

\* testingServer.on('exit') with a code above 0.
onExit(c) ==
    /\ Ready
    /\ c.command = "start"
    /\ servers[c.pid].status = "failed"
    /\ storage' = setItemSync(Without(c.processData, c.port))
    /\ ret' = Exited("start", c.port, 1, "Failed running testing server.")
    /\ clis' = clis (-) SetToBag({c})
    /\ UNCHANGED <<processVars, subscriptions, messages, notifyUrl, objectPrototype, calls, nDrawn,
                   servers, listening>>

\* The callback of ps.kill.
onKilled(c) ==
    /\ Ready
    /\ c.command = "stop"
    /\ storage' = setItemSync(Without(c.processData, c.port))
    /\ ret' = Exited("stop", c.port, 0, "Server at port %d has been stopped.")
    /\ clis' = clis (-) SetToBag({c})
    /\ UNCHANGED <<processVars, subscriptions, messages, notifyUrl, objectPrototype, calls, nDrawn,
                   servers, listening>>

\* Another program starts or stops listening on the port of the test.
OtherProgram ==
    /\ Ready
    /\ IF TestPort \in listening THEN listening' = {}
       ELSE portFree(TestPort) /\ listening' = {TestPort}
    /\ UNCHANGED <<processVars, subscriptions, messages, notifyUrl, objectPrototype, calls, nDrawn, ret,
                   storage, servers, clis>>

---------------------------------------------------------------------------
\* The caller takes the outcome of the call that settled: the .then and .catch
\* callbacks of the request handlers.  The engine runs its next piece of code
\* after that.
Deliver ==
    /\ ret # NoOutcome
    /\ ret' = NoOutcome
    /\ UNCHANGED <<subscriptions, messages, notifyUrl, cliVars, processVars, objectPrototype, calls, nDrawn>>

Next ==
    \/ \E options \in OptionsInputs : SubscribeStart(options)
    \/ \E c \in Suspended : SubscribeStore(c)
    \/ \E clientHash \in NamedHashes : ExpireSubscription(clientHash)
    \/ \E requestBody \in RequestBodies : GetNotifications(requestBody)
    \/ \E clientHash \in NamedHashes : \E input \in NotifyInputs :
          NotifyStart(clientHash, input.pushHeaders, bodyFor(clientHash, input.body))
    \/ \E c \in Suspended : NotifyResume(c)
    \/ Deliver

Spec == Init /\ [][Next]_vars

\* The token handleNotification has verified for a VAPID subscription: the
\* second word of a WebPush authorization, the t field of a vapid one.
tokenOf(pushHeaders) ==
    IF pushHeaders.encoding = "aesgcm"
    THEN splitAuthorization(pushHeaders.authorization).jwt
    ELSE getVapidHeaderFields(pushHeaders.authorization).t

\* The notifications of NotifyInputs that reach the await of handleNotification
\* when they are sent to a subscription with applicationServerKey KeyA.
AwaitingInputs ==
    { input \in NotifyInputs :
         LET headers == input.pushHeaders
         IN  /\ validateNotificationHeaders([applicationServerKey |-> KeyA], headers) = NoError
             /\ IF headers.encoding = "aesgcm"
                THEN /\ splitAuthorization(headers.authorization).type = "WebPush"
                     /\ splitAuthorization(headers.authorization).jwt # Undefined
                ELSE /\ ~getVapidHeaderFields(headers.authorization).thrown
                     /\ validateCrypto(getVapidHeaderFields(headers.authorization).k, KeyA)
                           = NoError }

\* The handleNotification calls that can be suspended.
AwaitingCalls ==
    { [op |-> "handleNotification",
       input |-> [clientHash |-> h, pushHeaders |-> input.pushHeaders,
                  body |-> bodyFor(h, input.body)],
       isVapid |-> TRUE,
       jwt |-> tokenOf(input.pushHeaders)] :
         h \in 1..MaxSubscriptions, input \in AwaitingInputs }

\* The scheduling of the runtime: a callback whose promise has settled is run,
\* and so is the rest of a call whose await has returned.
SpecFair ==
    /\ Spec
    /\ WF_vars(Deliver)
    /\ \A c \in AwaitingCalls : SF_vars(c \in Suspended /\ NotifyResume(c))

\* The engine and the server with callers that send more than the tests do:
\* any key (a clientHash that was issued, one that was not, or __proto__),
\* headers with fields missing, and requests for /expire-subscription.
NextAnyInput ==
    \/ \E options \in OptionsInputs : SubscribeStart(options)
    \/ \E c \in Suspended : SubscribeStore(c)
    \/ \E clientHash \in NamedKeys : ExpireSubscription(clientHash)
    \/ \E requestBody \in RequestBodiesAnyKey : GetNotifications(requestBody)
    \/ \E clientHash \in NamedKeys : \E input \in NotifyInputsAnyInput :
          NotifyStart(clientHash, input.pushHeaders, bodyFor(clientHash, input.body))
    \/ \E c \in Suspended : NotifyResume(c)
    \/ \E clientHash \in NamedHashes : PostExpireSubscription(clientHash)
    \/ Deliver

SpecAnyInput == Init /\ [][NextAnyInput]_vars

\* The command line, its servers and the other program.
NextCli ==
    \/ \E cliArgs \in CliInputs : Cli(cliArgs)
    \/ \E pid \in DOMAIN servers : ServerListen(pid)
    \/ \E c \in Waiting : onStdoutData(c)
    \/ \E c \in Waiting : onExit(c)
    \/ \E c \in Waiting : onKilled(c)
    \/ OtherProgram
    \/ Deliver

SpecCli == Init /\ [][NextCli]_vars

---------------------------------------------------------------------------
\* The validators fed with the header objects of their tests

\* The encodings, TTLs and authorization values of the test 'Validate
\* notification headers', and the authorization value the server passes on for
\* a request without that header.
HeaderEncodings == {"aesgcm", "aes128gcm", "rsa4096", ""}

HeaderTtls == { <<"3", "6", "0", "0">>, <<"0">>, <<>>, <<"o", "o", "p", "s">> }

Placeholder == AuthString("placeholder", Undefined, <<>>)

HeaderAuthorizations == {EmptyString, Undefined, Placeholder, WebPush(JwtA), Vapid(JwtA, KeyA)}

\* Every header object made of these values, with and without each of the
\* three properties validateNotificationHeaders looks at.
ValidatorHeaders ==
    { WithoutAll(full, absent) :
         full \in [encoding : HeaderEncodings, ttl : HeaderTtls,
                   authorization : HeaderAuthorizations,
                   encryption : {AesgcmHeaders.encryption},
                   cryptoKey : {AesgcmHeaders.cryptoKey}],
         absent \in SUBSET {"encoding", "ttl", "authorization"} }

\* 'WebPush <token> <one more word>': split(' ') gives three words.
WebPushAndMore(token) ==
    [type |-> "string", scheme |-> "WebPush", token |-> token, params |-> <<>>,
     more |-> "word"]

\* Authorization values of aesgcm notifications: tokens that verify and tokens
\* that do not, one word, the wrong first word, three words, a vapid value.
AesgcmAuthorizations ==
    { WebPush(JwtA), WebPush(JwtB), WebPush(JwtExpiredA), WebPush(JwtMalformed),
      AuthString("Invalid", Undefined, <<>>), AuthString("WebPush", Undefined, <<>>),
      Bearer(JwtA), WebPushAndMore(JwtA), Vapid(JwtA, KeyA) }

\* Crypto-Key values: well formed, without dh, with a dh that is too short or
\* starts with another byte than 4, without p256ecdsa, with another key.
CryptoKeys ==
    { CryptoKey(<<<<"dh", DhGood>>, <<"p256ecdsa", KeyA>>>>),
      CryptoKey(<<<<"p256ecdsa", KeyA>>>>),
      CryptoKey(<<<<"dh", DhShort>>, <<"p256ecdsa", KeyA>>>>),
      CryptoKey(<<<<"dh", DhBadLead>>, <<"p256ecdsa", KeyA>>>>),
      CryptoKey(<<<<"dh", DhGood>>>>),
      CryptoKey(<<<<"dh", DhGood>>, <<"p256ecdsa", KeyB>>>>) }

\* Authorization values of aes128gcm notifications: vapid values whose token
\* verifies or does not, with another key, without t, without k, with another
\* first word, and values of the WebPush form.
Aes128gcmAuthorizations ==
    { Vapid(JwtA, KeyA), Vapid(JwtB, KeyA), Vapid(JwtExpiredA, KeyA), Vapid(JwtA, KeyB),
      AuthString("vapid", Undefined, <<<<"t", JwtA>>, <<"foobar", KeyA>>>>),
      AuthString("vapid", Undefined, <<<<"foobar", JwtA>>, <<"k", KeyA>>>>),
      AuthString("nopid", Undefined, <<<<"t", JwtA>>, <<"k", KeyA>>>>),
      WebPush(JwtA), AuthString("Invalid", Undefined, <<>>) }

StageHeaders ==
    { [AesgcmHeaders EXCEPT !.authorization = a, !.cryptoKey = k] :
         a \in AesgcmAuthorizations, k \in CryptoKeys }
    \cup { [Aes128gcmHeaders EXCEPT !.authorization = a] : a \in Aes128gcmAuthorizations }

\* Each header object with the body of clients that send well: encrypted for
\* the subscription under the encoding they name.
HeaderInputs ==
    { [pushHeaders |-> headers,
       body |-> IF hasOwnProperty(headers, "encoding") /\ headers.encoding = "aes128gcm"
                THEN "world" ELSE "hello"] :
         headers \in ValidatorHeaders \cup StageHeaders }

\* Subscriptions with and without an application server key.
HeaderOptions == { <<>>, <<<<"applicationServerKey", KeyA>>>> }

\* Clients that send one notification at a time.
NextHeaders ==
    \/ \E options \in HeaderOptions : SubscribeStart(options)
    \/ \E c \in Suspended : SubscribeStore(c)
    \/ \E clientHash \in NamedHashes : \E input \in HeaderInputs :
          /\ calls = EmptyBag
          /\ NotifyStart(clientHash, input.pushHeaders, bodyFor(clientHash, input.body))
    \/ \E c \in Suspended : NotifyResume(c)
    \/ Deliver

SpecHeaders == Init /\ [][NextHeaders]_vars

---------------------------------------------------------------------------
\* The caller that keeps the list getNotifications returned

\* The array getNotifications returns as messages: this.messages[clientHash]
\* itself when the log has the hash, a new empty array when it has not.
returnedList(msgs, requestBody) ==
    IF hasOwnProperty(msgs, requestBody.clientHash)
    THEN [stored |-> TRUE, clientHash |-> requestBody.clientHash]
    ELSE [stored |-> FALSE, items |-> <<>>]

\* What the holder of the array list reads from it when the log is msgs.
itemsOf(list, msgs) == IF list.stored THEN msgs[list.clientHash] ELSE list.items

\* A successful getNotifications is the outcome the caller has at hand.
HoldsList == ret.op = "getNotifications" /\ ret.settled = "resolved"

\* The caller takes the outcome of a getNotifications and keeps the array it
\* was returned: const data = model.getNotifications(...).
CallerKeeps ==
    /\ HoldsList
    /\ held' = returnedList(messages, ret.input)
    /\ ret' = NoOutcome
    /\ UNCHANGED <<subscriptions, messages, notifyUrl, cliVars, objectPrototype, calls, nDrawn,
                   apiModel, instances, others>>

\* The texts a caller writes into a list.
CallerItems == {"mine"}

\* The caller pushes item to the array it keeps.  The array of a hash the log
\* had is the log's own; a new empty array is the caller's alone.
CallerPush(item) ==
    /\ held # Undefined
    /\ Len(itemsOf(held, messages)) < MaxMessages
    /\ IF held.stored
       THEN /\ messages' = [messages EXCEPT ![held.clientHash] = Append(@, item)]
            /\ UNCHANGED held
       ELSE /\ held' = [held EXCEPT !.items = Append(@, item)]
            /\ UNCHANGED messages
    /\ UNCHANGED <<subscriptions, notifyUrl, cliVars, objectPrototype, calls, nDrawn, ret,
                   apiModel, instances, others>>

\* The engine and a caller that keeps the lists it reads.
NextReader ==
    \/ \E options \in OptionsInputs : SubscribeStart(options)
    \/ \E c \in Suspended : SubscribeStore(c)
    \/ \E requestBody \in RequestBodies : GetNotifications(requestBody)
    \/ \E clientHash \in NamedHashes : \E input \in NotifyInputs :
          NotifyStart(clientHash, input.pushHeaders, bodyFor(clientHash, input.body))
    \/ \E c \in Suspended : NotifyResume(c)
    \/ CallerKeeps
    \/ \E item \in CallerItems : CallerPush(item)
    \/ Deliver

SpecReader == Init /\ [][NextReader]_vars

---------------------------------------------------------------------------
\* Servers constructed in one process: class WebPushTestingServer and the
\* module variable apiModel its methods call.  subscriptions, messages and
\* notifyUrl are the fields of the engine apiModel refers to; others holds the
\* fields of the other engines.

\* The fields of engine e.
engineFields(e) ==
    IF e = apiModel
    THEN [notifyUrl |-> notifyUrl, subscriptions |-> subscriptions, messages |-> messages]
    ELSE others[e]

\* new WebPushTestingServer(pushApiModel, port): the constructor assigns the
\* engine to the module variable and sets the engine's notifyUrl.  The model
\* constructs a server while no call of an engine is suspended.
Construct(pushApiModel, port) ==
    /\ Ready
    /\ calls = EmptyBag
    /\ port \notin DOMAIN instances
    /\ instances' = Put(instances, port, pushApiModel)
    /\ apiModel' = pushApiModel
    /\ notifyUrl' = notifyUrlOf(port)
    /\ IF pushApiModel = apiModel
       THEN UNCHANGED <<subscriptions, messages, others>>
       ELSE /\ subscriptions' = others[pushApiModel].subscriptions
            /\ messages' = others[pushApiModel].messages
            /\ others' = [e \in Engines \ {pushApiModel} |->
                             IF e = apiModel THEN engineFields(apiModel) ELSE others[e]]
    /\ UNCHANGED <<objectPrototype, calls, nDrawn, ret, cliVars, held>>

\* POST /subscribe to the server of port: apiModel.subscribe(req.body).
ServerSubscribe(port, options) ==
    /\ port \in DOMAIN instances
    /\ SubscribeStart(options)

\* POST /notify/<clientHash> to the server of port:
\* apiModel.handleNotification(clientHash, pushHeaders, req.body).
ServerHandleNotification(port, clientHash, pushHeaders, body) ==
    /\ port \in DOMAIN instances
    /\ NotifyStart(clientHash, pushHeaders, body)

\* POST /get-notifications to the server of port:
\* apiModel.getNotifications(req.body).
ServerGetNotifications(port, requestBody) ==
    /\ port \in DOMAIN instances
    /\ GetNotifications(requestBody)

\* The clientHashes requests name: those any engine has issued, and 0.
IssuedHashes == {0} \cup UNION { DOMAIN engineFields(e).subscriptions : e \in Engines }

\* Servers are constructed and take requests.
NextServers ==
    \/ \E pushApiModel \in Engines : \E port \in ConstructorPorts : Construct(pushApiModel, port)
    \/ \E port \in DOMAIN instances : \E options \in HeaderOptions : ServerSubscribe(port, options)
    \/ \E c \in Suspended : SubscribeStore(c)
    \/ \E port \in DOMAIN instances : \E clientHash \in IssuedHashes : \E input \in NotifyInputs :
          ServerHandleNotification(port, clientHash, input.pushHeaders,
                                   bodyFor(clientHash, input.body))
    \/ \E c \in Suspended : NotifyResume(c)
    \/ \E port \in DOMAIN instances : \E clientHash \in IssuedHashes :
          ServerGetNotifications(port, [clientHash |-> clientHash])
    \/ Deliver

SpecServers == Init /\ [][NextServers]_vars

---------------------------------------------------------------------------
\* Properties

\* A call of op settles in this step with the outcome ret'.
Settles(op) == Ready /\ ret'.op = op

\* A call of op suspends in this step as call.
Suspends(op, call) == call.op = op /\ calls' = Suspend(call)

\* A subscribe starts in this step: it is rejected in the run that starts it,
\* or it makes its draws and suspends.
StartsSubscribe ==
    \/ Settles("subscribe") /\ ~ret'.awaited
    \/ nDrawn' # nDrawn

\* A handleNotification for clientHash starts in this step: it settles in the
\* run that starts it, or it suspends.
StartsNotification(clientHash) ==
    \/ /\ Settles("handleNotification")
       /\ ~ret'.awaited
       /\ ret'.input.clientHash = clientHash
    \/ \E c \in BagToSet(calls') :
          Suspends("handleNotification", c) /\ c.input.clientHash = clientHash

\* C1: once expireSubscription(h) has succeeded, every handleNotification for h
\* that starts afterwards fails with SubscriptionExpired whatever its headers
\* and body are: a successful expireSubscription leaves the flag of h set, and
\* a handleNotification that starts while the flag is set is rejected with
\* SubscriptionExpiredError in the run that starts it, without suspending and
\* without touching the log.
C1_ExpiredNotificationFails ==
    [][\A h \in NamedHashes :
          /\ (/\ Settles("expireSubscription")
              /\ ret'.settled = "resolved"
              /\ ret'.input.clientHash = h)
                => isSubscriptionExpired(h)'
          /\ (isSubscriptionExpired(h) /\ StartsNotification(h))
                => /\ ret'.op = "handleNotification"
                   /\ ret'.settled = "rejected"
                   /\ ret'.error = SubscriptionExpiredError
                   /\ calls' = calls
                   /\ messages' = messages]_vars

\* A notification whose body is no ciphertext was rejected as expired.
C1_Witness ==
    /\ ret.op = "handleNotification"
    /\ ret.settled = "rejected"
    /\ ret.error = SubscriptionExpiredError
    /\ ret.input.body = Garbage
    /\ isSubscriptionExpired(ret.input.clientHash)

\* C2: a handleNotification that ends in an error leaves the log as it was: the
\* run in which a call is rejected and the run in which a call suspends change
\* no list, and the log changes only in a run in which a handleNotification
\* resolves.
C2_FailureLeavesLog ==
    [][/\ (Settles("handleNotification") /\ ret'.settled = "rejected")
             => messages' = messages
       /\ (\E c \in BagToSet(calls') : Suspends("handleNotification", c))
             => messages' = messages
       /\ messages' # messages
             => (Settles("handleNotification") /\ ret'.settled = "resolved")]_vars

\* A call that had been suspended failed to decrypt while the log held a message.
C2_Witness ==
    /\ ret.op = "handleNotification"
    /\ ret.settled = "rejected"
    /\ ret.awaited
    /\ ret.error = Err("Error", "decryption failed")
    /\ DOMAIN messages # {}

\* C3: the list of a clientHash is the plaintexts of its successful
\* notifications in the order they completed: the log starts empty, a run in
\* which a handleNotification for h resolves puts the plaintext of its body at
\* the end of the list of h (a new list when h had none) and changes no other
\* list, and every other run leaves the log as it is.
C3_LogInCompletionOrder ==
    [][IF Settles("handleNotification") /\ ret'.settled = "resolved"
       THEN LET h == ret'.input.clientHash
                before == IF hasOwnProperty(messages, h) THEN messages[h] ELSE <<>>
            IN  /\ DOMAIN messages' = DOMAIN messages \cup {h}
                /\ messages'[h] = Append(before, ret'.input.body.text)
                /\ \A g \in DOMAIN messages \ {h} : messages'[g] = messages[g]
       ELSE messages' = messages]_vars

\* Two notifications with different texts are stored for one clientHash, the
\* later one last.
C3_Witness ==
    /\ ret.op = "handleNotification"
    /\ ret.settled = "resolved"
    /\ hasOwnProperty(messages, ret.input.clientHash)
    /\ Len(messages[ret.input.clientHash]) = 2
    /\ messages[ret.input.clientHash][1] # messages[ret.input.clientHash][2]
    /\ messages[ret.input.clientHash][2] = ret.input.body.text

\* C4: overlapping notifications for one clientHash lose no append: the run in
\* which a suspended handleNotification resolves makes the list of its hash one
\* longer, with its plaintext last and every earlier entry where it was (a new
\* list only when the hash has none at that moment), and leaves every other
\* suspended call suspended, to do the same.
C4_OverlappingAppendsKept ==
    [][(/\ Settles("handleNotification")
        /\ ret'.settled = "resolved"
        /\ ret'.awaited)
             => LET h == ret'.input.clientHash
                    n == IF hasOwnProperty(messages, h) THEN Len(messages[h]) ELSE 0
                IN  /\ hasOwnProperty(messages', h)
                    /\ Len(messages'[h]) = n + 1
                    /\ messages'[h][n + 1] = ret'.input.body.text
                    /\ \A i \in 1..n : messages'[h][i] = messages[h][i]
                    /\ \E d \in Suspended :
                          /\ d.op = "handleNotification"
                          /\ d.input.clientHash = h
                          /\ d.input.body = ret'.input.body
                          /\ calls' = Resume(d)]_vars

\* Two calls for one clientHash were suspended together when the hash had no
\* list: one has resolved and made the list, the other is still suspended.
C4_Witness ==
    /\ ret.op = "handleNotification"
    /\ ret.settled = "resolved"
    /\ ret.awaited
    /\ messages[ret.input.clientHash] = <<ret.input.body.text>>
    /\ \E c \in Suspended :
          /\ c.op = "handleNotification"
          /\ c.input.clientHash = ret.input.clientHash
          /\ c.input.body.text # ret.input.body.text

\* C5: a subscription whose expired flag is set keeps it set in every step.
C5_ExpiredStaysExpired ==
    [][\A h \in DOMAIN subscriptions :
          subscriptions[h].isExpired
             => (hasOwnProperty(subscriptions', h) /\ subscriptions'[h].isExpired)]_vars

\* The messages of an expired subscription were read: it got a notification,
\* was expired, and is expired after the getNotifications that followed.
C5_Witness ==
    /\ ret.op = "getNotifications"
    /\ ret.settled = "resolved"
    /\ Len(ret.value.messages) > 0
    /\ subscriptions[ret.input.clientHash].isExpired

\* C6: getNotifications fails with 'Client not subscribed' for every request
\* that has no clientHash or names a clientHash that is no key of the registry,
\* in every reachable state, whether or not the log holds a list under that
\* value; and a call with such a request was rejected with that error.
C6_UnknownClientRejected ==
    LET unknown(requestBody) ==
            \/ ~hasOwnProperty(requestBody, "clientHash")
            \/ requestBody.clientHash \notin DOMAIN subscriptions
        notSubscribed == Err("RangeError", "Client not subscribed")
    IN  /\ \A requestBody \in RequestBodies, stray \in {<<>>, <<"hello">>} :
              unknown(requestBody) =>
                 LET log == IF hasOwnProperty(requestBody, "clientHash")
                            THEN Put(messages, requestBody.clientHash, stray)
                            ELSE messages
                     r == getNotifications(subscriptions, log, requestBody)
                 IN  /\ r.thrown
                     /\ r.error = notSubscribed
                     /\ getNotifications(subscriptions, messages, requestBody).thrown
        /\ (ret.op = "getNotifications" /\ unknown(ret.input))
              => (ret.settled = "rejected" /\ ret.error = notSubscribed)

\* A request for a clientHash that was never issued was rejected while the
\* registry held a subscription with a stored message.
C6_Witness ==
    /\ ret.op = "getNotifications"
    /\ ret.settled = "rejected"
    /\ hasOwnProperty(ret.input, "clientHash")
    /\ ~hasOwnProperty(subscriptions, ret.input.clientHash)
    /\ DOMAIN messages # {}

\* C7: for a subscribed clientHash getNotifications returns the stored list of
\* the hash, or an empty list when the log has none, and no getNotifications
\* changes the registry or the log.
C7_GetNotificationsReadsOnly ==
    [][Settles("getNotifications")
          => /\ subscriptions' = subscriptions
             /\ messages' = messages
             /\ (/\ hasOwnProperty(ret'.input, "clientHash")
                 /\ hasOwnProperty(subscriptions, ret'.input.clientHash))
                   => /\ ret'.settled = "resolved"
                      /\ ret'.value.messages =
                            IF hasOwnProperty(messages, ret'.input.clientHash)
                            THEN messages[ret'.input.clientHash] ELSE <<>>]_vars

\* An empty list was returned for a subscription without messages, while
\* another subscription had one; the log got no list for the hash asked for.
C7_Witness ==
    /\ ret.op = "getNotifications"
    /\ ret.settled = "resolved"
    /\ ret.value.messages = <<>>
    /\ ~hasOwnProperty(messages, ret.input.clientHash)
    /\ DOMAIN messages # {}

\* What is wrong with one option: a name that is no option, a userVisibleOnly
\* that is neither 'true' nor 'false', an applicationServerKey that decodes to
\* no P-256 point; or nothing.
OptionFault(entry) ==
    IF entry[1] \notin {"userVisibleOnly", "applicationServerKey"}
    THEN <<"InvalidParameter", entry[1]>>
    ELSE IF entry[1] = "userVisibleOnly"
    THEN IF entry[2] \in {"true", "false"} THEN <<"none", "">> ELSE <<"InvalidBoolean", "">>
    ELSE IF IsP256Point(entry[2].bytes) THEN <<"none", "">> ELSE <<"InvalidVapidKey", "">>

\* The error kind of an error object of subscribe.
SubscribeErrorKind(error) ==
    IF error.name = "RangeError" /\ error.message = "Invalid property ... sent."
    THEN <<"InvalidParameter", error.detail>>
    ELSE IF error.name = "RangeError"
            /\ error.message = "Parameter userVisibleOnly is not of type boolean: ..."
    THEN <<"InvalidBoolean", "">>
    ELSE IF error.name = "Error"
            /\ error.message = "Parameter applicationServerKey does not seem to be a valid VAPID key."
    THEN <<"InvalidVapidKey", "">>
    ELSE <<"other", "">>

\* C8: subscribe(options) is rejected exactly when an option is faulty, with
\* the error of the first faulty option: InvalidParameter naming the key,
\* InvalidBoolean or InvalidVapidKey; for every other options object, the empty
\* one included, the call goes on to createSubscription, and a call that got
\* there resolves.  It holds while Object.prototype is as the runtime made it;
\* once expireSubscription('__proto__') has set isExpired there (C12), the loop
\* of validateSubscribeOptions finds that name in every options object.
C8_SubscribeRejectedExactly ==
    [][/\ \A options \in OptionsInputs :
             (StartsSubscribe /\ SubscribeStart(options)) =>
                LET faulty == { i \in 1..Len(options) : OptionFault(options[i]) # <<"none", "">> }
                IN  IF faulty = {}
                    THEN /\ ret' = NoOutcome
                         /\ \E c \in BagToSet(calls') : Suspends("subscribe", c)
                    ELSE /\ ret'.op = "subscribe"
                         /\ ret'.settled = "rejected"
                         /\ ret'.input.options = options
                         /\ calls' = calls
                         /\ \E i \in faulty :
                               /\ \A j \in faulty : i <= j
                               /\ SubscribeErrorKind(ret'.error) = OptionFault(options[i])
       /\ (Settles("subscribe") /\ ret'.awaited) => ret'.settled = "resolved"]_vars

\* C9: a successful subscribe adds one subscription to the registry, under the
\* clientHash it returns, not expired and with the applicationServerKey of the
\* options (undefined when the options have none), leaves every subscription
\* that was there as it was, and returns as endpoint notifyUrl followed by that
\* clientHash: the call suspends with the applicationServerKey of its options,
\* and the run in which it resolves stores and returns just that.
C9_SubscribeAddsOne ==
    [][/\ \A options \in OptionsInputs :
             (nDrawn' # nDrawn /\ SubscribeStart(options))
                => \E c \in BagToSet(calls') :
                      /\ Suspends("subscribe", c)
                      /\ c.applicationServerKey = OptionValue(options, "applicationServerKey")
                      /\ subscriptions' = subscriptions
       /\ (Settles("subscribe") /\ ret'.settled = "resolved")
             => LET h == ret'.value.clientHash
                IN  /\ ~hasOwnProperty(subscriptions, h)
                    /\ DOMAIN subscriptions' = DOMAIN subscriptions \cup {h}
                    /\ subscriptions'[h].isExpired = FALSE
                    /\ \E c \in Suspended :
                          /\ c.op = "subscribe"
                          /\ calls' = Resume(c)
                          /\ c.uniqueClientHash = h
                          /\ subscriptions'[h].applicationServerKey = c.applicationServerKey
                    /\ \A g \in DOMAIN subscriptions : subscriptions'[g] = subscriptions[g]
                    /\ ret'.value.endpoint = <<notifyUrl, h>>]_vars

\* A subscribe with an application server key resolved next to an older
\* subscription that is expired.
C9_Witness ==
    /\ ret.op = "subscribe"
    /\ ret.settled = "resolved"
    /\ ret.input.applicationServerKey = KeyA
    /\ subscriptions[ret.value.clientHash].applicationServerKey = KeyA
    /\ \E g \in DOMAIN subscriptions : subscriptions[g].isExpired

\* C11: for every successful subscribe the returned keys.auth decodes to exactly
\* 16 bytes, the returned keys.p256dh decodes to exactly 65 bytes of which the
\* first is 0x04, and the auth secret stored for the returned clientHash
\* decodes to the 16 bytes that were returned.
C11_ReturnedKeysWellFormed ==
    (ret.op = "subscribe" /\ ret.settled = "resolved") =>
        LET auth == base64UrlDecode(ret.value.keys.auth)
            p256dh == base64UrlDecode(ret.value.keys.p256dh)
        IN  /\ auth.length = 16
            /\ p256dh.length = 65
            /\ p256dh.first = 4
            /\ hasOwnProperty(subscriptions, ret.value.clientHash)
            /\ base64UrlDecode(subscriptions[ret.value.clientHash].auth) = auth

\* The second subscribe of a run resolved; its keys are those of the second
\* draw, not of the subscription stored before it.
C11_Witness ==
    /\ ret.op = "subscribe"
    /\ ret.settled = "resolved"
    /\ Cardinality(DOMAIN subscriptions) = 2
    /\ base64UrlDecode(ret.value.keys.auth) = randomBytes16(ret.value.clientHash)
    /\ \E g \in DOMAIN subscriptions :
          base64UrlDecode(subscriptions[g].auth) # base64UrlDecode(ret.value.keys.auth)

\* C12: expireSubscription(h) for a clientHash h that is no key of the registry
\* fails with NotFound (the RangeError 'Subscription with specified client hash
\* does not exist') and changes nothing: neither the registry nor the log.
\* The lookup of the code follows the prototype chain, so for __proto__ it
\* finds an object and the call succeeds.
C12_UnknownExpireFails ==
    [][(/\ Settles("expireSubscription")
        /\ ~hasOwnProperty(subscriptions, ret'.input.clientHash))
          => /\ ret'.settled = "rejected"
             /\ ret'.error = Err("RangeError",
                                 "Subscription with specified client hash does not exist")
             /\ subscriptions' = subscriptions
             /\ messages' = messages]_vars

\* C13: expireSubscription is idempotent on a known clientHash: every call for
\* a key of the registry succeeds, the first and each later one alike, and a
\* call for a subscription that is expired already leaves the registry, the
\* log and the suspended calls as the call before it left them.
C13_ExpireIdempotent ==
    [][\A h \in DOMAIN subscriptions :
          (Settles("expireSubscription") /\ ret'.input.clientHash = h)
             => /\ ret'.settled = "resolved"
                /\ ret'.value = Undefined
                /\ subscriptions' = [subscriptions EXCEPT ![h].isExpired = TRUE]
                /\ subscriptions[h].isExpired => subscriptions' = subscriptions
                /\ messages' = messages
                /\ calls' = calls]_vars

\* An expireSubscription succeeded for a subscription that it found expired,
\* with a message stored, next to a subscription that is not expired.
C13_Witness ==
    /\ ret.op = "expireSubscription"
    /\ ret.settled = "resolved"
    /\ hasOwnProperty(subscriptions, ret.input.clientHash)
    /\ ret.input.found.isExpired
    /\ subscriptions[ret.input.clientHash] = ret.input.found
    /\ hasOwnProperty(messages, ret.input.clientHash)
    /\ \E g \in DOMAIN subscriptions : ~subscriptions[g].isExpired

\* C14: handleNotification for a clientHash that is no key of the registry
\* fails with ClientNotSubscribed, the RangeError 'Client not subscribed',
\* before it looks at a header: for every headers object, empty, malformed or
\* valid, the call throws that error in the run that starts it, and a call
\* that settles for such a clientHash was rejected with it, without having
\* suspended and without a change to the log or to the suspended calls.
C14_UnknownClientNotification ==
    [][(/\ Settles("handleNotification")
        /\ ~hasOwnProperty(subscriptions, ret'.input.clientHash))
          => /\ ret'.settled = "rejected"
             /\ ~ret'.awaited
             /\ ret'.error = Err("RangeError", "Client not subscribed")
             /\ messages' = messages
             /\ calls' = calls
             /\ \A h \in {ret'.input.clientHash, ProtoKey} : \A input \in NotifyInputs :
                   notifyEntry(h, input.pushHeaders) =
                      [kind |-> "throw", error |-> Err("RangeError", "Client not subscribed")]]_vars

\* A well-formed aes128gcm notification for a clientHash that was never issued
\* was rejected as not subscribed, while the registry held a subscription
\* with a stored message.
C14_Witness ==
    /\ ret.op = "handleNotification"
    /\ ret.settled = "rejected"
    /\ ret.error = Err("RangeError", "Client not subscribed")
    /\ ~hasOwnProperty(subscriptions, ret.input.clientHash)
    /\ ret.input.body.text = "world"
    /\ DOMAIN messages # {}

\* C15: the notify endpoint answers 201 when the notification was stored, 410
\* when the addressed subscription is expired and 400 for every other error,
\* and it answers 410 only for an expired subscription.  The code answers 410
\* to every error that is no RangeError: an unsupported encoding, a bad TTL, a
\* malformed Authorization or Crypto-Key header, a failed decryption.
C15_GoneOnlyWhenExpired ==
    ret.op = "handleNotification" =>
        LET response == handleNotificationResponse(ret)
        IN  /\ ret.settled = "resolved" => response.status = 201
            /\ (ret.settled = "rejected" /\ ret.error = SubscriptionExpiredError)
                  => response.status = 410
            /\ (ret.settled = "rejected" /\ ret.error # SubscriptionExpiredError)
                  => response.status = 400
            /\ response.status = 410 => isSubscriptionExpired(ret.input.clientHash)

\* The subscription a notification names is stored and not expired.
Live(clientHash) ==
    hasOwnProperty(subscriptions, clientHash) /\ ~isSubscriptionExpired(clientHash)

\* The notifications of NotifyInputs that name no supported encoding.
UnsupportedEncodingInputs ==
    { input \in NotifyInputs :
         ~(/\ hasOwnProperty(input.pushHeaders, "encoding")
           /\ input.pushHeaders.encoding \in {"aesgcm", "aes128gcm"}) }

\* The notifications of NotifyInputs with a supported encoding, a TTL that is
\* a number and an Authorization header that is empty.
EmptyAuthorizationInputs ==
    { input \in NotifyInputs \ UnsupportedEncodingInputs :
         /\ hasOwnProperty(input.pushHeaders, "ttl")
         /\ ~isNaN(parseInt(input.pushHeaders.ttl))
         /\ hasOwnProperty(input.pushHeaders, "authorization")
         /\ input.pushHeaders.authorization = EmptyString }

\* The response of the endpoint to a notification the engine rejects in the
\* run that starts it.
RejectedAtEntry(h, input) ==
    handleNotificationResponse(
        Rejected("handleNotification", FALSE, [clientHash |-> h],
                 notifyEntry(h, input.pushHeaders).error))

C17_ExpireEndpoint ==
    [][(Ready /\ ret'.op = "POST /expire-subscription")
          => IF hasOwnProperty(subscriptions, ret'.input.clientHash)
             THEN /\ ret'.response.status = 200
                  /\ subscriptions'[ret'.input.clientHash].isExpired
             ELSE ret'.response.status = 400]_vars

\* The error kind of an error object of handleNotification; a failure of
\* ece.decrypt is the error of the decryption it calls.
NotificationErrorKind(error) ==
    CASE error = Err("Error", "Unsupported encoding") -> "UnsupportedEncoding"
      [] error = Err("Error", "TTL header is invalid: ...") -> "InvalidTTL"
      [] error = Err("RangeError", "Missing or invalid authorization header")
            -> "MissingAuthorization"
      [] error = Err("Error", "Invalid Authorization header sent")
            -> "InvalidAuthorizationHeader"
      [] error = Err("Error", "Invalid Crypto-Key header sent") -> "InvalidCryptoKey"
      [] error = Err("RangeError", "Invalid authentication token supplied") -> "InvalidToken"
      [] error = Err("RangeError", "Client not subscribed") -> "ClientNotSubscribed"
      [] error = SubscriptionExpiredError -> "SubscriptionExpired"
      [] error = Err("Error", "decryption failed") -> "DecryptionFailed"
      [] OTHER -> "unspecified"

\* C18: for every input, headers objects without cryptoKey, encryption or
\* authorization included, a handleNotification that fails fails with one of
\* the specified kinds (UnsupportedEncoding, InvalidTTL, MissingAuthorization,
\* InvalidAuthorizationHeader, InvalidCryptoKey, InvalidToken,
\* ClientNotSubscribed, SubscriptionExpired), never with an unspecified
\* runtime error.  A failed decryption is counted with the specified kinds
\* here.  The code calls split and substr on a header that is undefined,
\* which throws a TypeError.
C18_OnlySpecifiedErrors ==
    (ret.op = "handleNotification" /\ ret.settled = "rejected")
       => NotificationErrorKind(ret.error) # "unspecified"

\* C19: every handleNotification that has started reaches exactly one terminal
\* outcome, stored or rejected, provided the token verification it awaits
\* returns: a call that settles in the run that starts it was never suspended,
\* a suspended call is one of AwaitingCalls, the run in which a suspended call
\* settles takes it out of the suspended calls, a call leaves the suspended
\* calls only in the run that settles it, and a call does not stay suspended for
\* ever: suspended calls with the same arguments are one element of the bag, so
\* either no call with the arguments of c is suspended again and again, or a call
\* with the arguments of c is resumed again and again.
C19_NotificationsTerminate ==
    /\ [](\A c \in Suspended : c.op = "handleNotification" => c \in AwaitingCalls)
    /\ [][Settles("handleNotification")
             => /\ ret'.settled \in {"resolved", "rejected"}
                /\ IF ret'.awaited
                   THEN \E c \in Suspended :
                           /\ c.op = "handleNotification"
                           /\ Sent(c.input) = ret'.input
                           /\ calls' = calls (-) SetToBag({c})
                   ELSE calls' = calls]_vars
    /\ [][\A c \in Suspended :
             c.op = "handleNotification" /\ CopiesIn(c, calls') < CopiesIn(c, calls)
                => /\ Settles("handleNotification")
                   /\ ret'.awaited
                   /\ ret'.input = Sent(c.input)]_vars
    /\ \A c \in AwaitingCalls :
          \/ []<>(c \notin Suspended)
          \/ []<><<c \in Suspended /\ NotifyResume(c)>>_vars

\* A suspended call was rejected for its token while a second call for the
\* same clientHash is still suspended.
C19_Witness ==
    /\ ret.op = "handleNotification"
    /\ ret.settled = "rejected"
    /\ ret.awaited
    /\ ret.error = Err("RangeError", "Invalid authentication token supplied")
    /\ \E c \in Suspended :
          c.op = "handleNotification" /\ c.input.clientHash = ret.input.clientHash

\* C20: a subscription that is in the registry is in it after every step, under
\* the same clientHash and with the same applicationServerKey, key pair and
\* auth secret; its expiry flag changes only in a run of expireSubscription
\* for its clientHash, and only to set.
C20_SubscriptionImmutable ==
    [][\A h \in DOMAIN subscriptions :
          /\ hasOwnProperty(subscriptions', h)
          /\ subscriptions'[h].applicationServerKey = subscriptions[h].applicationServerKey
          /\ subscriptions'[h].subscriptionDh = subscriptions[h].subscriptionDh
          /\ subscriptions'[h].publicKey = subscriptions[h].publicKey
          /\ subscriptions'[h].auth = subscriptions[h].auth
          /\ subscriptions'[h].isExpired # subscriptions[h].isExpired
                => /\ Settles("expireSubscription")
                   /\ ret'.input.clientHash = h
                   /\ subscriptions'[h].isExpired]_vars

\* A second subscription was stored while a notification for the first, which
\* has expired since the notification started, is suspended.
C20_Witness ==
    /\ ret.op = "subscribe"
    /\ ret.settled = "resolved"
    /\ \E c \in Suspended :
          /\ c.op = "handleNotification"
          /\ c.input.clientHash # ret.value.clientHash
          /\ subscriptions[c.input.clientHash].isExpired
          /\ subscriptions[c.input.clientHash].applicationServerKey = KeyA

\* What a handleNotification that starts in this state does in its first run:
\* it throws, it suspends for the token check, or it decrypts and then is
\* rejected or stores the plaintext.
firstRun(clientHash, pushHeaders, body) ==
    LET entry == notifyEntry(clientHash, pushHeaders)
    IN  IF entry.kind = "throw" THEN [settled |-> "rejected", error |-> entry.error]
        ELSE IF entry.kind = "await" THEN [settled |-> "suspended"]
        ELSE LET result == notifyTail(clientHash, pushHeaders, body, entry.isVapid)
             IN  IF result.thrown THEN [settled |-> "rejected", error |-> result.error]
                 ELSE [settled |-> "resolved", text |-> result.text]

\* No authorization property at all.
Absent == [type |-> "absent"]

AuthorizationValues ==
    {Absent, Undefined, EmptyString, WebPush(JwtB), Bearer(JwtA), Vapid(JwtA, KeyA)}

withAuthorization(pushHeaders, authorization) ==
    IF authorization = Absent THEN Without(pushHeaders, "authorization")
    ELSE Put(pushHeaders, "authorization", authorization)

\* C21: a notification to a subscription stored without applicationServerKey
\* is never suspended for a token check, its outcome is the one of its first
\* run, which is the same with every authorization value in place of the one
\* sent, also with none, and under aes128gcm with a valid TTL that outcome is
\* the outcome of decrypting the body: the plaintext is the last of the list
\* when decryption succeeds.
C21_NoVapidChecksWithoutKey ==
    (/\ ret.op = "handleNotification"
     /\ hasOwnProperty(subscriptions, ret.input.clientHash)
     /\ subscriptions[ret.input.clientHash].applicationServerKey = Undefined)
       => LET h == ret.input.clientHash
              body == ret.input.body
              seen(run) ==
                  /\ run.settled = ret.settled
                  /\ run.settled = "rejected" => run.error = ret.error
                  /\ run.settled = "resolved" =>
                        /\ hasOwnProperty(messages, h)
                        /\ messages[h][Len(messages[h])] = run.text
          IN  /\ ~ret.awaited
              /\ \E input \in NotifyInputs :
                    /\ bodyFor(h, input.body) = body
                    /\ seen(firstRun(h, input.pushHeaders, body))
              /\ \A input \in NotifyInputs :
                    bodyFor(h, input.body) = body
                      => \A authorization \in AuthorizationValues :
                            firstRun(h, withAuthorization(input.pushHeaders, authorization),
                                     body)
                               = firstRun(h, input.pushHeaders, body)
              /\ ~isSubscriptionExpired(h) =>
                    \A authorization \in AuthorizationValues :
                       LET run == firstRun(h, withAuthorization(
                                      [encoding |-> "aes128gcm", ttl |-> <<"0">>],
                                      authorization), body)
                           text == decryptBody(h, "aes128gcm", Undefined, Undefined, body)
                       IN  IF text.thrown
                           THEN run = [settled |-> "rejected", error |-> text.error]
                           ELSE run = [settled |-> "resolved", text |-> text.text]

\* An aes128gcm notification that carried a vapid Authorization header was
\* stored for a subscription without applicationServerKey.
C21_Witness ==
    /\ ret.op = "handleNotification"
    /\ ret.settled = "resolved"
    /\ ~ret.awaited
    /\ subscriptions[ret.input.clientHash].applicationServerKey = Undefined
    /\ ret.input.body = Ciphertext(ret.input.clientHash, "aes128gcm", "world")
    /\ messages[ret.input.clientHash] = <<"world">>

\* The command lines that give the command and the port.
CommandLines(command, port) ==
    { cliArgs \in CliInputs :
        /\ cliArgs["_"] = <<command>>
        /\ port = IF hasOwnProperty(cliArgs, "--port") THEN cliArgs["--port"]
                  ELSE DefaultPort }

Ports == {DefaultPort, TestPort}

\* C22: start for a port that has an entry in the stored processData exits
\* with code 1 and 'Server seems to already run on port', spawns no server and
\* leaves the store as it is; start for a port without entry, next to an entry
\* of another port, spawns a server for that port.
C22_StartTwiceRefused ==
    [][\A port \in Ports : \A cliArgs \in CommandLines("start", port) :
          Cli(cliArgs) =>
             IF hasOwnProperty(getProcessData, port)
             THEN /\ ret' = Exited("start", port, 1, "Server seems to already run on port")
                  /\ UNCHANGED <<storage, servers, clis>>
             ELSE /\ ret' = ret
                  /\ Len(servers') = Len(servers) + 1
                  /\ servers'[Len(servers')] = [port |-> port, status |-> "spawned"]
                  /\ storage' = storage]_vars

\* A second start for a port whose server listens was refused.
C22_Witness ==
    /\ ret.op = "start"
    /\ ret.code = 1
    /\ ret.log = "Server seems to already run on port"
    /\ hasOwnProperty(getProcessData, ret.input.port)
    /\ servers[getProcessData[ret.input.port]].status = "listening"
    /\ Len(servers) = 1

entryOf(processData, port) ==
    IF hasOwnProperty(processData, port) THEN <<processData[port]>> ELSE <<>>

\* C24: a start that exits with code 0 leaves the pid of the server it spawned
\* as the entry of its port; a stop for a port with an entry kills and waits,
\* and exits with code 0 leaving no entry for its port, so that a start for the
\* port spawns again; and a command changes the entry of no other port.
C24_StartStopRoundTrip ==
    [][/\ (Settles("start") /\ ret'.code = 0)
             => \E c \in Waiting :
                   /\ c.command = "start"
                   /\ c.port = ret'.input.port
                   /\ clis' = clis (-) SetToBag({c})
                   /\ entryOf(getProcessData', c.port) = <<c.pid>>
                   /\ servers[c.pid].port = c.port
       /\ \A port \in Ports : \A cliArgs \in CommandLines("stop", port) :
             (Cli(cliArgs) /\ hasOwnProperty(getProcessData, port))
                => \E c \in BagToSet(clis') :
                      /\ clis' = clis (+) SetToBag({c})
                      /\ c.command = "stop"
                      /\ c.port = port
                      /\ ret' = ret
       /\ \A c \in Waiting :
             (c.command = "stop" /\ onKilled(c))
                => /\ ret'.op = "stop"
                   /\ ret'.input.port = c.port
                   /\ ret'.code = 0
                   /\ entryOf(getProcessData', c.port) = <<>>
       /\ \A port \in Ports :
             entryOf(getProcessData', port) # entryOf(getProcessData, port)
                => ret'.op \in {"start", "stop"} /\ ret'.input.port = port]_vars

\* C25: a start whose server has failed to listen ends with 'Failed running
\* testing server.' and exit code 1 and leaves no entry for its port, whichever
\* of the server's output and the server's exit the command is given first.
C25_FailedStartReported ==
    [][\A c \in Waiting :
          (/\ c.command = "start"
           /\ servers[c.pid].status = "failed"
           /\ clis' = clis (-) SetToBag({c}))
             => /\ ret' = Exited("start", c.port, 1, "Failed running testing server.")
                /\ entryOf(getProcessData', c.port) = <<>>]_vars

\* C26: no message is appended to the list of a subscription that is expired,
\* also not by a notification that passed the expiry check before the
\* subscription expired and was suspended for its token check meanwhile.
C26_NoAppendAfterExpiry ==
    [][\A h \in DOMAIN subscriptions :
          (/\ hasOwnProperty(messages', h)
           /\ ~hasOwnProperty(messages, h) \/ messages'[h] # messages[h])
             => ~subscriptions[h].isExpired]_vars

\* The application server key a notification supplies: p256ecdsa of Crypto-Key
\* under aesgcm, k of Authorization under aes128gcm.
suppliedKey(pushHeaders) ==
    IF pushHeaders.encoding = "aesgcm"
    THEN getParametersFromHeaderFields(pushHeaders.cryptoKey.fields).p256ecdsa
    ELSE getParametersFromHeaderFields(pushHeaders.authorization.params).k

cryptoKeyStage(clientHash, pushHeaders) ==
    LET stored == subscriptions[clientHash].applicationServerKey
        isVapid == stored # Undefined
    IN  IF pushHeaders.encoding = "aesgcm"
        THEN LET fields == getCryptoKeyHeaderFields(Get(pushHeaders, "cryptoKey"), isVapid)
             IN  IF fields.thrown THEN fields.error
                 ELSE IF isVapid THEN validateCrypto(fields.p256ecdsa, stored)
                 ELSE NoError
        ELSE IF isVapid
        THEN LET fields == getVapidHeaderFields(Get(pushHeaders, "authorization"))
             IN  IF fields.thrown THEN fields.error
                 ELSE validateCrypto(fields.k, stored)
        ELSE NoError

C29_AuthorizationBeforeCryptoKey ==
    [][/\ \A h \in DOMAIN subscriptions : \A input \in NotifyInputsAnyInput :
             LET authorization == input.pushHeaders.authorization
                 sent == [clientHash |-> h, pushHeaders |-> input.pushHeaders,
                          body |-> bodyFor(h, input.body)]
             IN  (/\ subscriptions[h].applicationServerKey # Undefined
                  /\ ~isSubscriptionExpired(h)
                  /\ validateNotificationHeaders(subscriptions[h], input.pushHeaders) = NoError
                  /\ input.pushHeaders.encoding = "aesgcm"
                  /\ authorization # Undefined
                  /\ \/ splitAuthorization(authorization).type # "WebPush"
                     \/ splitAuthorization(authorization).jwt = Undefined
                  /\ cryptoKeyStage(h, input.pushHeaders) # NoError
                  /\ NotifyStart(h, sent.pushHeaders, sent.body))
                    => /\ ret' = Rejected("handleNotification", FALSE, Sent(sent),
                                          Err("Error", "Invalid Authorization header sent"))
                       /\ UNCHANGED <<calls, messages>>
       /\ \A c \in Suspended :
             (/\ c.op = "handleNotification"
              /\ calls' = calls (-) SetToBag({c})
              /\ c.input.pushHeaders.encoding = "aesgcm"
              /\ cryptoKeyStage(c.input.clientHash, c.input.pushHeaders) # NoError
              /\ validateAuthorizationHeader(c.input.clientHash, c.jwt) # NoError)
                => ret' = Rejected("handleNotification", TRUE, Sent(c.input),
                                   validateAuthorizationHeader(c.input.clientHash, c.jwt))]_vars

\* The notification of the test, with the one-word Authorization value and the
\* short dh, was rejected in its first run for its Authorization value by a
\* subscription with the application server key KeyA.
C29_Witness ==
    /\ ret.op = "handleNotification"
    /\ ret.settled = "rejected"
    /\ ~ret.awaited
    /\ ret.input.body = Garbage
    /\ ret.error = Err("Error", "Invalid Authorization header sent")
    /\ hasOwnProperty(subscriptions, ret.input.clientHash)
    /\ subscriptions[ret.input.clientHash].applicationServerKey = KeyA
    /\ ~subscriptions[ret.input.clientHash].isExpired

\* C30: a run in which a subscribe is rejected changes neither the registry
\* nor the log, draws no clientHash and suspends no call; and a subscribe whose
\* options hold an option that fails its check, also after options that pass
\* theirs, is rejected in the run in which it is called, before
\* createSubscription has generated anything.
C30_RejectedSubscribeChangesNothing ==
    [][/\ (Settles("subscribe") /\ ret'.settled = "rejected")
             => /\ ~ret'.awaited
                /\ UNCHANGED <<subscriptions, messages, nDrawn, calls, objectPrototype>>
       /\ \A options \in OptionsInputs :
             (/\ \E i \in 1..Len(options) : validateOption(options[i][1], options[i][2]) # NoError
              /\ StartsSubscribe
              /\ SubscribeStart(options))
                => /\ Settles("subscribe")
                   /\ ret'.settled = "rejected"
                   /\ ret'.input.options = options
                   /\ UNCHANGED <<subscriptions, messages, nDrawn, calls>>]_vars

\* A subscribe whose options name a valid applicationServerKey and then an
\* unknown property was rejected while a subscription and a message of it were
\* stored and another subscribe was suspended.
C30_Witness ==
    /\ ret.op = "subscribe"
    /\ ret.settled = "rejected"
    /\ ret.input.options = <<<<"applicationServerKey", KeyA>>, <<"random", "x">>>>
    /\ subscriptions # <<>>
    /\ \E h \in DOMAIN messages : messages[h] # <<>>
    /\ \E c \in Suspended : c.op = "subscribe"

\* C31: a run of handleNotification, whether it throws, suspends, is rejected
\* or stores, leaves the registry as it was: the same subscriptions, each with
\* the same expired flag, applicationServerKey, key pair and auth secret; and a
\* notification that is stored was encrypted for the private key and the auth
\* secret the subscription got when it was created.
C31_NotificationKeepsRegistry ==
    [][/\ (\/ Settles("handleNotification")
           \/ \E c \in BagToSet(calls') : Suspends("handleNotification", c))
             => /\ subscriptions' = subscriptions
                /\ objectPrototype' = objectPrototype
       /\ (Settles("handleNotification") /\ ret'.settled = "resolved")
             => LET h == ret'.input.clientHash
                IN  /\ subscriptions'[h].subscriptionDh = generateKeys(h)
                    /\ subscriptions'[h].auth = base64UrlEncode(randomBytes16(h))
                    /\ ret'.input.body.privateKey = subscriptions'[h].subscriptionDh.privateKey
                    /\ ret'.input.body.authSecret = base64UrlDecode(subscriptions'[h].auth)]_vars

\* The second notification to a subscription with an application server key
\* was stored, decrypted with the key pair of the subscription's creation.
C31_Witness ==
    /\ ret.op = "handleNotification"
    /\ ret.settled = "resolved"
    /\ ret.awaited
    /\ Len(messages[ret.input.clientHash]) = 2
    /\ subscriptions[ret.input.clientHash].subscriptionDh = generateKeys(ret.input.clientHash)
    /\ subscriptions[ret.input.clientHash].applicationServerKey # Undefined

\* C32: validateCrypto succeeds exactly when the supplied key and the stored
\* key decode to the same bytes and throws 'Invalid Crypto-Key header sent'
\* whenever they do not, also when they differ in length; so an aesgcm
\* notification whose token was accepted and whose p256ecdsa decodes to other
\* bytes than the stored key is rejected with that error.
C32_MismatchIsInvalidCryptoKey ==
    [][\A c \in Suspended :
          LET stored == subscriptions[c.input.clientHash].applicationServerKey
              fields == getCryptoKeyHeaderFields(Get(c.input.pushHeaders, "cryptoKey"), TRUE)
          IN  (/\ c.op = "handleNotification"
               /\ calls' = calls (-) SetToBag({c})
               /\ c.input.pushHeaders.encoding = "aesgcm"
               /\ validateAuthorizationHeader(c.input.clientHash, c.jwt) = NoError
               /\ ~fields.thrown)
                 => /\ validateCrypto(fields.p256ecdsa, stored)
                          = IF base64UrlDecode(fields.p256ecdsa) = base64UrlDecode(stored)
                            THEN NoError
                            ELSE Err("Error", "Invalid Crypto-Key header sent")
                    /\ base64UrlDecode(fields.p256ecdsa) # base64UrlDecode(stored)
                          => ret' = Rejected("handleNotification", TRUE, Sent(c.input),
                                             Err("Error", "Invalid Crypto-Key header sent"))]_vars

\* A Crypto-Key value is malformed: it has no dh entry, or its dh does not
\* decode to 65 bytes of which the first is 4, or it has no p256ecdsa entry and
\* the subscription has an application server key.
CryptoKeyMalformed(cryptoKey, isVapid) ==
    LET entries == cryptoKey.fields
        named(name) == { i \in 1..Len(entries) : entries[i][1] = name }
    IN  \/ named("dh") = {}
        \/ \E i \in named("dh") :
              \/ base64UrlDecode(entries[i][2]).length # 65
              \/ base64UrlDecode(entries[i][2]).first # 4
        \/ isVapid /\ named("p256ecdsa") = {}

InvalidCryptoKey == Err("Error", "Invalid Crypto-Key header sent")

AuthorizationMalformed(encoding, authorization) ==
    IF encoding = "aes128gcm"
    THEN \/ authorization.scheme # "vapid"
         \/ \A i \in 1..Len(authorization.params) : authorization.params[i][1] # "t"
         \/ \A i \in 1..Len(authorization.params) : authorization.params[i][1] # "k"
    ELSE \/ authorization.scheme # "WebPush"
         \/ authorization.token = Undefined
         \/ authorization.params # <<>>
         \/ hasOwnProperty(authorization, "more")

InvalidAuthorizationHeader == Err("Error", "Invalid Authorization header sent")

\* C34: a notification with valid headers to an unexpired subscription that
\* has an application server key, whose Authorization value is malformed for
\* its encoding, is rejected in its first run with 'Invalid Authorization
\* header sent', and neither a call is suspended nor a message stored.
C34_MalformedAuthorizationRejected ==
    [][\A h \in DOMAIN subscriptions : \A input \in HeaderInputs :
          LET headers == input.pushHeaders
          IN  (/\ Settles("handleNotification") \/ calls' # calls
               /\ subscriptions[h].applicationServerKey # Undefined
               /\ ~isSubscriptionExpired(h)
               /\ validateNotificationHeaders(subscriptions[h], headers) = NoError
               /\ headers.authorization # Undefined
               /\ AuthorizationMalformed(headers.encoding, headers.authorization)
               /\ NotifyStart(h, headers, bodyFor(h, input.body)))
                 => /\ ret' = Rejected("handleNotification", FALSE,
                                       [clientHash |-> h, body |-> bodyFor(h, input.body)],
                                       InvalidAuthorizationHeader)
                    /\ UNCHANGED <<messages, calls>>]_vars

\* jsonwebtoken.verify accepts the token for the key: it decodes, has not
\* expired and is signed by the key.
TokenVerifies(jwt, key) ==
    /\ jwt.state = "valid"
    /\ jwt.signer = base64UrlDecode(key).id

InvalidToken == Err("RangeError", "Invalid authentication token supplied")

\* C35: for a subscription with an application server key, a notification
\* whose Authorization value is well formed and, under aes128gcm, names the
\* stored key gets to the token check, and every notification whose token does
\* not decode, has expired or is signed by another key than the stored one
\* ends there, rejected with the RangeError 'Invalid authentication token
\* supplied' and with nothing stored; a token that verifies is not rejected
\* with that error.
C35_InvalidTokenRejected ==
    [][/\ \A h \in DOMAIN subscriptions : \A input \in HeaderInputs :
             LET headers == input.pushHeaders
                 stored == subscriptions[h].applicationServerKey
             IN  (/\ Settles("handleNotification") \/ calls' # calls
                  /\ stored # Undefined
                  /\ ~isSubscriptionExpired(h)
                  /\ validateNotificationHeaders(subscriptions[h], headers) = NoError
                  /\ headers.authorization # Undefined
                  /\ ~AuthorizationMalformed(headers.encoding, headers.authorization)
                  /\ headers.encoding = "aes128gcm"
                        => base64UrlDecode(suppliedKey(headers)) = base64UrlDecode(stored)
                  /\ NotifyStart(h, headers, bodyFor(h, input.body)))
                    => \E c \in BagToSet(calls') :
                          /\ Suspends("handleNotification", c)
                          /\ c.jwt = tokenOf(headers)
       /\ \A c \in Suspended :
             (c.op = "handleNotification" /\ calls' = calls (-) SetToBag({c}))
                => LET stored == subscriptions[c.input.clientHash].applicationServerKey
                   IN  IF TokenVerifies(c.jwt, stored)
                       THEN ret'.settled = "rejected" => ret'.error # InvalidToken
                       ELSE /\ ret' = Rejected("handleNotification", TRUE, Sent(c.input),
                                               InvalidToken)
                            /\ messages' = messages]_vars

\* An aes128gcm notification that names the stored key was rejected for its
\* token, and nothing was stored for the subscription.
C35_Witness ==
    /\ ret.op = "handleNotification"
    /\ ret.settled = "rejected"
    /\ ret.awaited
    /\ ret.error = InvalidToken
    /\ ret.input.body = Ciphertext(ret.input.clientHash, "aes128gcm", "world")
    /\ subscriptions[ret.input.clientHash].applicationServerKey = KeyA
    /\ ~hasOwnProperty(messages, ret.input.clientHash)

\* The encoding is one of the two names the engine knows.
EncodingSupported(headers) ==
    /\ hasOwnProperty(headers, "encoding")
    /\ headers.encoding \in {"aesgcm", "aes128gcm"}

UnsupportedEncoding == Err("Error", "Unsupported encoding")

\* The error a handleNotification step ends with, or NoError when the call is
\* suspended or has stored its message.
stepError == IF ret'.op = "handleNotification" /\ ret'.settled = "rejected"
             THEN ret'.error ELSE NoError

\* The notifications without an encoding the engine knows.
UnsupportedInputs == { input \in HeaderInputs : ~EncodingSupported(input.pushHeaders) }

\* C36: for every subscription that gets stored, with or without application
\* server key, validateNotificationHeaders gives 'Unsupported encoding' if and
\* only if the headers have no encoding or one that is neither aesgcm nor
\* aes128gcm, whatever TTL and authorization they have; and a notification to
\* an unexpired subscription is rejected with that error in its first run,
\* with nothing stored and no call suspended, in just these cases.
C36_UnsupportedEncodingRejected ==
    [][/\ subscriptions' # subscriptions
             => \A h \in DOMAIN subscriptions' : \A input \in HeaderInputs :
                   validateNotificationHeaders(subscriptions'[h], input.pushHeaders)
                         = UnsupportedEncoding
                      <=> ~EncodingSupported(input.pushHeaders)
       /\ \A h \in DOMAIN subscriptions :
             (StartsNotification(h) /\ ~isSubscriptionExpired(h))
                => /\ \A input \in UnsupportedInputs :
                         NotifyStart(h, input.pushHeaders, bodyFor(h, input.body))
                            => /\ ret' = Rejected("handleNotification", FALSE,
                                                  [clientHash |-> h,
                                                   body |-> bodyFor(h, input.body)],
                                                  UnsupportedEncoding)
                               /\ UNCHANGED <<messages, calls>>
                   /\ stepError = UnsupportedEncoding
                         => \E input \in UnsupportedInputs :
                               NotifyStart(h, input.pushHeaders,
                                           bodyFor(h, input.body))]_vars

\* Notifications were rejected for their encoding by a subscription with an
\* application server key and, before, stored by it.
C36_Witness ==
    /\ ret.op = "handleNotification"
    /\ ret.settled = "rejected"
    /\ ret.error = UnsupportedEncoding
    /\ subscriptions[ret.input.clientHash].applicationServerKey = KeyA
    /\ hasOwnProperty(messages, ret.input.clientHash)
    /\ \E g \in DOMAIN subscriptions : subscriptions[g].applicationServerKey = Undefined

\* parseInt gives a number for the TTL: the headers have one and it starts
\* with a digit.
TtlParses(headers) ==
    /\ hasOwnProperty(headers, "ttl")
    /\ headers.ttl # <<>>
    /\ headers.ttl[1] \in Digits

InvalidTTL == Err("Error", "TTL header is invalid: ...")

\* The notifications with an encoding the engine knows and without a TTL that
\* parses.
InvalidTtlInputs ==
    { input \in HeaderInputs :
         EncodingSupported(input.pushHeaders) /\ ~TtlParses(input.pushHeaders) }

\* C37: for every subscription that gets stored and all headers with aesgcm or
\* aes128gcm, validateNotificationHeaders gives 'TTL header is invalid' if and
\* only if the TTL is missing, is the empty string or is not numeric, so it
\* accepts the TTL 0 as it accepts 3600; and a notification to an unexpired
\* subscription is rejected with that error in its first run, with nothing
\* stored and no call suspended, in just these cases.
C37_InvalidTtlRejected ==
    [][/\ subscriptions' # subscriptions
             => \A h \in DOMAIN subscriptions' : \A input \in HeaderInputs :
                   EncodingSupported(input.pushHeaders)
                      => (validateNotificationHeaders(subscriptions'[h], input.pushHeaders)
                               = InvalidTTL
                            <=> ~TtlParses(input.pushHeaders))
       /\ \A h \in DOMAIN subscriptions :
             (StartsNotification(h) /\ ~isSubscriptionExpired(h))
                => /\ \A input \in InvalidTtlInputs :
                         NotifyStart(h, input.pushHeaders, bodyFor(h, input.body))
                            => /\ ret' = Rejected("handleNotification", FALSE,
                                                  [clientHash |-> h,
                                                   body |-> bodyFor(h, input.body)],
                                                  InvalidTTL)
                               /\ UNCHANGED <<messages, calls>>
                   /\ stepError = InvalidTTL
                         => \E input \in InvalidTtlInputs :
                               NotifyStart(h, input.pushHeaders,
                                           bodyFor(h, input.body))
       /\ \A c \in BagToSet(calls') :
             Suspends("handleNotification", c) => TtlParses(c.input.pushHeaders)]_vars

\* A notification was rejected for its TTL by a subscription that has stored
\* an aes128gcm notification before.
C37_Witness ==
    /\ ret.op = "handleNotification"
    /\ ret.settled = "rejected"
    /\ ret.error = InvalidTTL
    /\ hasOwnProperty(messages, ret.input.clientHash)
    /\ messages[ret.input.clientHash] = <<"world">>
    /\ subscriptions[ret.input.clientHash].applicationServerKey = KeyA

\* The headers have no authorization value: no such property, the value
\* undefined that the server passes on for a request without the header, or
\* the empty string.
AuthorizationMissing(headers) ==
    \/ ~hasOwnProperty(headers, "authorization")
    \/ headers.authorization = Undefined
    \/ headers.authorization = EmptyString

MissingAuthorization == Err("RangeError", "Missing or invalid authorization header")

\* C38: for all headers with a known encoding and a TTL that parses,
\* validateNotificationHeaders gives 'Missing or invalid authorization header'
\* if and only if the subscription has an application server key and the
\* headers have no authorization value; and a notification to an unexpired
\* subscription is rejected with that error in its first run in just these
\* cases.
C38_MissingAuthorizationRejected ==
    [][/\ subscriptions' # subscriptions
             => \A h \in DOMAIN subscriptions' : \A input \in HeaderInputs :
                   (EncodingSupported(input.pushHeaders) /\ TtlParses(input.pushHeaders))
                      => (validateNotificationHeaders(subscriptions'[h], input.pushHeaders)
                               = MissingAuthorization
                            <=> /\ subscriptions'[h].applicationServerKey # Undefined
                                /\ AuthorizationMissing(input.pushHeaders))
       /\ \A h \in DOMAIN subscriptions :
             (StartsNotification(h) /\ ~isSubscriptionExpired(h))
                => \A input \in HeaderInputs :
                      (/\ EncodingSupported(input.pushHeaders)
                       /\ TtlParses(input.pushHeaders)
                       /\ NotifyStart(h, input.pushHeaders, bodyFor(h, input.body)))
                         => (stepError = MissingAuthorization
                               <=> /\ subscriptions[h].applicationServerKey # Undefined
                                   /\ AuthorizationMissing(input.pushHeaders))]_vars

\* C39: the list a caller keeps from a getNotifications reads the same after a
\* step that stores a notification as before it, and a step in which the
\* caller changes the list leaves the log as it was.
C39_ReturnedListIsSnapshot ==
    [][held # Undefined
          => /\ (Settles("handleNotification") /\ messages' # messages)
                   => itemsOf(held, messages') = itemsOf(held, messages)
             /\ (\E item \in CallerItems : CallerPush(item)) => messages' = messages]_vars

\* C40: a subscribe, notify or get-notifications request to a server runs on
\* the engine that server was constructed with, and leaves the fields of every
\* other engine as they were.
C40_ServerServesOwnEngine ==
    [][\A port \in DOMAIN instances :
          (\/ \E options \in HeaderOptions : ServerSubscribe(port, options)
           \/ \E clientHash \in IssuedHashes : \E input \in NotifyInputs :
                 ServerHandleNotification(port, clientHash, input.pushHeaders,
                                          bodyFor(clientHash, input.body))
           \/ \E clientHash \in IssuedHashes :
                 ServerGetNotifications(port, [clientHash |-> clientHash]))
             => /\ apiModel = instances[port]
                /\ \A e \in Engines \ {instances[port]} : engineFields(e)' = engineFields(e)]_vars

===========================================================================
